------------------------------ MODULE MCEditor ------------------------------
(* A graph and those who change it: overlapping edits of its rows, of its    *)
(* schedule and its webhook; the canvas, the approval banner and the chat of *)
(* an open page; a graph that is built from a plan.  The modules share no    *)
(* state, so a behaviour is one of one of them and the variables of the      *)
(* others keep an initial value.                                             *)
EXTENDS GraphEdits, Triggers, Canvas, ApprovalBanner, Chat,
        Blueprints, TLC

CONSTANTS h, a, b, e1, e2, e3, n1, n2, d1, bot1, r, s, first, second
VARIABLE part       \* the module this behaviour is about

\* An entry with two auto edges to the same node: enough for a group.
MCStartEdges == LET e == [src |-> h, dst |-> a, auto |-> TRUE]
                IN  (e1 :> e) @@ (e2 :> e)
MCFirstEdges == d1 :> [source |-> n1, target |-> n2]
MCGates == (r :> 1) @@ (s :> 1)
MCTwoGates == (r :> 2) @@ (s :> 1)
\* Two ways between the agents of a plan, and one to nowhere.
MCLinks == {<<first, second>>, <<second, first>>, <<first, Unknown>>}

MCVars == <<graphVars, triggerVars, canvasVars, bannerVars, chatVars,
            blueprintVars, part>>

MCInit ==
    /\ part \in {"graph", "trigger", "canvas", "banner", "chat", "plan"}
    /\ GraphInit /\ entry = h
    /\ TriggerInit /\ CanvasInit
    /\ BannerInit /\ (part # "banner" => socket)
    /\ ChatInit /\ bot = bot1
    /\ IF part = "plan" THEN BlueprintInit
       ELSE /\ origin = "example" /\ wanted = 0 /\ plan = NoPlan
            /\ plans = 0 /\ building = "row" /\ todo = {} /\ made = NoRows
            /\ graphEntry = [exists |-> FALSE, entry |-> NoName]
            /\ starter = "idle" /\ seen = NoRows
            /\ dropped = {} /\ byHand = FALSE

MCNext ==
    /\ part' = part
    /\ \/ part = "graph" /\ GraphNext
          /\ UNCHANGED <<triggerVars, canvasVars, bannerVars, chatVars,
                         blueprintVars>>
       \/ part = "trigger" /\ TriggerNext
          /\ UNCHANGED <<graphVars, canvasVars, bannerVars, chatVars,
                         blueprintVars>>
       \/ part = "canvas" /\ CanvasNext
          /\ UNCHANGED <<graphVars, triggerVars, bannerVars, chatVars,
                         blueprintVars>>
       \/ part = "banner" /\ BannerNext
          /\ UNCHANGED <<graphVars, triggerVars, canvasVars, chatVars,
                         blueprintVars>>
       \/ part = "chat" /\ ChatNext
          /\ UNCHANGED <<graphVars, triggerVars, canvasVars, bannerVars,
                         blueprintVars>>
       \/ part = "plan" /\ BlueprintNext
          /\ UNCHANGED <<graphVars, triggerVars, canvasVars, bannerVars,
                         chatVars>>

MCSpec == MCInit /\ [][MCNext]_MCVars

\* The requests of GraphEdits are interchangeable; no liveness is checked.
MCSymmetry == Permutations(Requests)
=============================================================================
