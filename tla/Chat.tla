-------------------------------- MODULE Chat --------------------------------
(***************************************************************************)
(* The dashboard's chat (useBotChat): a turn is a run whose input is the   *)
(* transcript of the last run shown, its answer and the new message, cut   *)
(* at its oldest end to what there is room for; the answer is polled for,  *)
(* and only a completed run becomes part of the conversation.              *)
(* Choosing another graph keeps the component and its state and loads the  *)
(* other graph's runs; Enter sends also while a turn is under way.         *)
(* A transcript is the sequence of its turns, each named by its run; it    *)
(* has lengths, of which a character more or less at the cut and the line  *)
(* that says there was one are left out, and so is how much is left of a   *)
(* message longer than the room.                                           *)
(***************************************************************************)
EXTENDS Naturals, Sequences, FiniteSets

CONSTANTS
    Bots,       \* graphs to chat with
    Sizes,      \* lengths of a message and of an answer
    Room,       \* MAX_TRANSCRIPT_CHARS
    MaxTurns,   \* bound: messages sent
    MaxVisits   \* bound: times a graph is opened

ASSUME ChatAssumption ==
    MaxTurns \in Nat /\ MaxVisits \in Nat /\ Sizes \subseteq Nat /\ Room \in Nat

VARIABLES
    bot,        \* the graph on screen
    turns,      \* the runs there are: their graph, status, transcript, lengths
    shown,      \* the component's runs
    sends,      \* turns under way in send()
    loads,      \* listRuns calls that are out, with what they will answer
    visits,     \* history: graphs opened
    mixups       \* history: what may have mixed up the conversation

chatVars == <<bot, turns, shown, sends, loads, visits, mixups>>

Live == {"pending", "running", "awaiting_approval"}
Turn == 1..Len(turns)

ChatInit ==
    /\ bot \in Bots
    /\ turns = <<>> /\ shown = <<>> /\ sends = {}
    /\ loads = {[bot |-> bot, found |-> <<>>]}
    /\ visits = 1 /\ mixups = {}

-----------------------------------------------------------------------------

\* The members of S that have k members of S up to them: one, the k-th.
Ranked(S, k) == {x \in S : Cardinality({y \in S : y <= x}) = k}

InOrder(S) == [k \in 1..Cardinality(S) |-> CHOOSE x \in Ranked(S, k) : TRUE]

AnsweredTurns(b) ==
    {i \in Turn : turns[i].bot = b /\ turns[i].status = "completed"}

\* The completed runs of a graph, oldest first.
Completed(b) == InOrder(AnsweredTurns(b))

Last(s) == s[Len(s)]

\* listRuns looks at the rows when it is called, or later.
Load(b) == loads' = loads \cup {[bot |-> b, found |-> Completed(b)]}

OpenBot(b) ==
    /\ b # bot /\ visits < MaxVisits
    /\ bot' = b /\ visits' = visits + 1
    /\ Load(b)
    /\ mixups' = mixups \cup
           (IF sends # {} \/ loads # {} THEN {"crossed"} ELSE {})
    /\ UNCHANGED <<turns, shown, sends>>

\* A load is answered, or fails and leaves what is shown.
Loaded(l) ==
    /\ shown' \in {l.found, shown}
    /\ loads' = loads \ {l}
    /\ mixups' = mixups \cup (IF shown' # l.found THEN {"unloaded"} ELSE {})
    /\ UNCHANGED <<bot, turns, sends, visits>>

\* Faulty variant: a turn carries on from the latest one sent.
PriorSent == IF turns = <<>> THEN <<>> ELSE Last(turns).transcript

\* What buildNextInput adds the new message to.
Prior == IF shown = <<>> THEN <<>> ELSE turns[Last(shown)].transcript

\* Where a message ends in the conversation as it was held, and its answer.
Upto(t) == turns[t].before + turns[t].message
Whole(t) == Upto(t) + turns[t].answer

\* truncateTranscript: from the first turn on that leaves no more than there
\* is room for, and the newest one whatever its length.
Fits(t, end) == end - turns[t].before <= Room
Kept(whole, end) ==
    {SubSeq(whole, k, Len(whole)) :
        k \in {k \in 1..Len(whole) :
                  /\ k < Len(whole) => Fits(whole[k], end)
                  /\ \A j \in 1..(k - 1) : ~Fits(whole[j], end)}}

Say ==
    /\ Len(turns) < MaxTurns
    /\ LET t == Len(turns) + 1
           before == IF shown = <<>> THEN 0 ELSE Whole(Last(shown))
       IN  /\ \E message, answer \in Sizes :
                  \E transcript \in Kept(Append(Prior, t), before + message) :
                      turns' = Append(turns,
                          [bot |-> bot, status |-> "pending",
                           transcript |-> transcript, before |-> before,
                           message |-> message, answer |-> answer])
           /\ sends' = sends \cup {t}
    /\ mixups' = mixups \cup
           (IF sends # {} \/ loads # {} THEN {"crossed"} ELSE {})
    /\ UNCHANGED <<bot, shown, loads, visits>>

\* The run moves on by itself.
RunMoves(t) ==
    /\ turns[t].status \in Live
    /\ \E next \in {"running", "awaiting_approval", "completed", "error",
                      "cancelled"} \ {turns[t].status} :
           turns' = [turns EXCEPT ![t].status = next]
    /\ UNCHANGED <<bot, shown, sends, loads, visits, mixups>>

\* A poll sees the run completed: the turn joins the conversation on screen.
Completes(t) ==
    /\ t \in sends /\ turns[t].status = "completed"
    /\ shown' = Append(shown, t)
    /\ sends' = sends \ {t}
    /\ UNCHANGED <<bot, turns, loads, visits, mixups>>

Fails(t) ==
    /\ t \in sends /\ turns[t].status = "error"
    /\ sends' = sends \ {t}
    /\ UNCHANGED <<bot, turns, shown, loads, visits, mixups>>

\* Faulty variant: the loop falls through to the answer.
GivesUpAnswering(t) ==
    /\ t \in sends /\ turns[t].status # "error"
    /\ shown' = Append(shown, t)
    /\ sends' = sends \ {t}
    /\ mixups' = mixups \cup {"givenup"}
    /\ UNCHANGED <<bot, turns, loads, visits>>

\* POLL_TIMEOUT_MS is over, a cancelled run's and a paused one's as well, or
\* a request throws; the run may still complete behind the chat's back.
GivesUp(t) ==
    /\ t \in sends /\ turns[t].status # "completed"
    /\ sends' = sends \ {t}
    /\ mixups' = mixups \cup {"givenup"}
    /\ UNCHANGED <<bot, turns, shown, loads, visits>>

ChatNext ==
    \/ \E b \in Bots : OpenBot(b)
    \/ \E l \in loads : Loaded(l)
    \/ Say
    \/ \E t \in Turn : RunMoves(t) \/ Completes(t) \/ Fails(t) \/ GivesUp(t)

ChatSpec == ChatInit /\ [][ChatNext]_chatVars

-----------------------------------------------------------------------------

\* A run that is still at work, paused, cancelled or failed is never shown as
\* an answer, however long it was polled for.
OnlyAnswersShown ==
    \A i \in DOMAIN shown : turns[shown[i]].status = "completed"

\* Without turns that overlapped, graphs changed with something under way,
\* loads that failed and runs given up on, the last run shown remembers the
\* conversation on screen, in order, and nothing of another graph: what was cut
\* turn by turn is what there is no room for in the whole of it.
NothingForgotten ==
    mixups = {} /\ loads = {} /\ shown # <<>> =>
        /\ turns[Last(shown)].transcript \in Kept(shown, Upto(Last(shown)))
        /\ \A i \in DOMAIN shown : turns[shown[i]].bot = bot

=============================================================================
