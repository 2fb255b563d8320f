--------------------------- MODULE ApprovalBanner ---------------------------
(***************************************************************************)
(* The approval banner of an open canvas: it learns of paused runs from    *)
(* the graph's event socket and from one read of the runs at mount, shows  *)
(* one run's pending input in a text field, and approves or cancels that   *)
(* run.  The server, other tabs and the engine go on meanwhile; events     *)
(* published while the socket is down are lost.                            *)
(*                                                                         *)
(* A text is named by what it is an input of: the run, and which of the    *)
(* run's gates; edited tells whether the user has changed it.  A banner is  *)
(* a run and a gate.                                                       *)
(***************************************************************************)
EXTENDS Naturals, Sequences

CONSTANTS
    Paused,         \* the runs of this graph, by name
    Gates,          \* bound: how many gates each run comes to
    MaxDrops,       \* bound: times the socket closes
    Nothing         \* no banner, no text, no request

ASSUME BannerAssumption == Gates \in [Paused -> Nat] /\ MaxDrops \in Nat

VARIABLES
    status,         \* the run's row: running, paused, cancelled, ended
    gate,           \* which of its gates it has come to
    given,          \* history: the input each gated node was given
    events,         \* published and on their way to this canvas
    socket,         \* whether the socket is open
    drops,          \* history: times it closed
    mountRead,      \* the read at mount: asked, answered or done, what it saw
    late,           \* history: its answer came in after events newer than it
    pendingApproval,\* the banner
    editedInput,    \* the text field
    request         \* approve or cancel, until its answer is in

bannerVars == <<status, gate, given, events, socket, drops, mountRead, late,
                pendingApproval, editedInput, request>>
runVars == <<status, gate, given>>
socketVars == <<events, socket, drops>>
shownVars == <<pendingApproval, editedInput>>

Original(b) == [run |-> b.run, gate |-> b.gate, edited |-> FALSE]

BannerInit ==
    /\ status = [r \in Paused |-> "running"]
    /\ gate = [r \in Paused |-> 0]
    /\ given = [r \in Paused |-> <<>>]
    /\ events = <<>> /\ socket \in BOOLEAN /\ drops = 0
    /\ mountRead = [stage |-> "asked", found |-> Nothing] /\ late = FALSE
    /\ pendingApproval = Nothing /\ editedInput = Nothing
    /\ request = Nothing

-----------------------------------------------------------------------------

Publish(event) == events' = IF socket THEN Append(events, event) ELSE events

\* Faulty variant: the text is set when there was no banner before.
ShowOverText(b) ==
    /\ pendingApproval' = b
    /\ editedInput' = IF b = Nothing THEN Nothing
                      ELSE IF pendingApproval = Nothing THEN Original(b)
                      ELSE editedInput

\* setPendingApproval and the effect keyed on the banner's run.
Show(b) ==
    /\ pendingApproval' = b
    /\ editedInput' =
           IF b = Nothing THEN Nothing
           ELSE IF pendingApproval # Nothing /\ pendingApproval.run = b.run
                THEN editedInput ELSE Original(b)

\* advanceRun at a gated node.
RunPauses(r) ==
    /\ status[r] = "running" /\ gate[r] < Gates[r]
    /\ status' = [status EXCEPT ![r] = "paused"]
    /\ gate' = [gate EXCEPT ![r] = @ + 1]
    /\ Publish([kind |-> "paused", run |-> r, gate |-> gate[r] + 1])
    /\ UNCHANGED <<given, socket, drops, mountRead, late, shownVars, request>>

\* completeRun, or the hop that fails it.
RunEnds(r) ==
    /\ status[r] = "running"
    /\ status' = [status EXCEPT ![r] = "ended"]
    /\ Publish([kind |-> "over", run |-> r, gate |-> gate[r]])
    /\ UNCHANGED <<gate, given, socket, drops, mountRead, late, shownVars,
                   request>>

\* POST /runs/:id/approve, from whichever tab; nothing is published.
Approved(r, text) ==
    /\ status' = [status EXCEPT ![r] = "running"]
    /\ given' = [given EXCEPT ![r] = Append(@, text)]
    /\ UNCHANGED <<gate, socketVars>>

Cancelled(r) ==
    /\ status' = [status EXCEPT ![r] = "cancelled"]
    /\ Publish([kind |-> "over", run |-> r, gate |-> gate[r]])
    /\ UNCHANGED <<gate, given, socket, drops>>

OtherTab(r) ==
    /\ \/ /\ status[r] = "paused"
          /\ Approved(r, Original([run |-> r, gate |-> gate[r]]))
       \/ status[r] \in {"running", "paused"} /\ Cancelled(r)
    /\ UNCHANGED <<mountRead, late, shownVars, request>>

SocketCloses ==
    /\ socket /\ drops < MaxDrops
    /\ socket' = FALSE /\ drops' = drops + 1 /\ events' = <<>>
    /\ UNCHANGED <<runVars, mountRead, late, shownVars, request>>

SocketOpens ==
    /\ ~socket
    /\ socket' = TRUE
    /\ UNCHANGED <<runVars, events, drops, mountRead, late, shownVars,
                   request>>

\* Faulty variant: a run that is cancelled elsewhere keeps its banner.
HandleKeeping(e) ==
    IF e.kind = "paused" THEN Show([run |-> e.run, gate |-> e.gate])
    ELSE UNCHANGED shownVars

\* The socket's message handler.
Handle(e) ==
    IF e.kind = "paused" THEN Show([run |-> e.run, gate |-> e.gate])
    ELSE IF pendingApproval # Nothing /\ pendingApproval.run = e.run
         THEN Show(Nothing)
    ELSE UNCHANGED shownVars

Receive ==
    /\ events # <<>>
    /\ Handle(Head(events))
    /\ events' = Tail(events)
    /\ late' = (late \/ mountRead.stage = "answered")
    /\ UNCHANGED <<runVars, socket, drops, mountRead, request>>

\* listRuns, once: the server looks, its answer arrives later.
ReadRuns ==
    /\ mountRead.stage = "asked"
    /\ \E found \in {[run |-> r, gate |-> gate[r]] :
                         r \in {q \in Paused : status[q] = "paused"}} :
           mountRead' = [stage |-> "answered", found |-> found]
    /\ late' = ~socket
    /\ UNCHANGED <<runVars, socketVars, shownVars, request>>

RunsArrive ==
    /\ mountRead.stage = "answered"
    /\ Show(mountRead.found)
    /\ mountRead' = [stage |-> "done", found |-> Nothing]
    /\ UNCHANGED <<runVars, socketVars, late, request>>

NoRunIsPaused ==
    /\ mountRead.stage = "asked" /\ \A r \in Paused : status[r] # "paused"
    /\ mountRead' = [stage |-> "done", found |-> Nothing]
    /\ UNCHANGED <<runVars, socketVars, late, shownVars, request>>

Edit ==
    /\ pendingApproval # Nothing /\ request = Nothing
    /\ editedInput' = [editedInput EXCEPT !.edited = TRUE]
    /\ UNCHANGED <<runVars, socketVars, mountRead, late, pendingApproval,
                   request>>

\* approvePending sends the text when it is not the banner's own input;
\* cancelPending sends none.
Ask(kind) ==
    /\ pendingApproval # Nothing /\ request = Nothing
    /\ request' = [kind |-> kind, run |-> pendingApproval.run,
                   text |-> IF editedInput = Original(pendingApproval)
                            THEN Nothing ELSE editedInput]
    /\ UNCHANGED <<runVars, socketVars, mountRead, late, shownVars>>

\* The server's part: it decides on the run as it is now.
Decided(r) ==
    IF request.kind = "approve" /\ status[r] = "paused"
    THEN /\ Approved(r, IF request.text = Nothing
                        THEN Original([run |-> r, gate |-> gate[r]])
                        ELSE request.text)
         /\ request' = [request EXCEPT !.kind = "done"]
    ELSE IF request.kind = "cancel" /\ status[r] \in {"running", "paused"}
    THEN Cancelled(r) /\ request' = [request EXCEPT !.kind = "done"]
    ELSE UNCHANGED <<runVars, socketVars>>
         /\ request' = [request EXCEPT !.kind = "refused"]

Decide ==
    /\ request # Nothing /\ request.kind \in {"approve", "cancel"}
    /\ Decided(request.run)
    /\ UNCHANGED <<mountRead, late, shownVars>>

\* A refusal leaves the banner; anything else takes it down, whichever run
\* it shows by now.
Answered ==
    /\ request # Nothing /\ request.kind \in {"done", "refused"}
    /\ IF request.kind = "done" THEN Show(Nothing) ELSE UNCHANGED shownVars
    /\ request' = Nothing
    /\ UNCHANGED <<runVars, socketVars, mountRead, late>>

BannerNext ==
    \/ \E r \in Paused : RunPauses(r) \/ RunEnds(r) \/ OtherTab(r)
    \/ SocketCloses \/ SocketOpens \/ Receive
    \/ ReadRuns \/ RunsArrive \/ NoRunIsPaused
    \/ Edit \/ (\E kind \in {"approve", "cancel"} : Ask(kind))
    \/ Decide \/ Answered

BannerSpec == BannerInit /\ [][BannerNext]_bannerVars

-----------------------------------------------------------------------------

\* No gated node is ever given an input that was another run's, however
\* banners of several runs replace each other while the user edits.
InputIsOfItsRun ==
    \A r \in Paused : \A g \in DOMAIN given[r] : given[r][g].run = r

\* With a socket that never closed and a mount read that overtook no event,
\* a banner about a run that is over has its end still on the way, or this
\* tab's own decision.
BannerComesDown ==
    pendingApproval # Nothing /\ drops = 0 /\ ~late =>
        \/ status[pendingApproval.run] \in {"running", "paused"}
        \/ \E i \in DOMAIN events :
               events[i].kind = "over" /\ events[i].run = pendingApproval.run
        \/ request # Nothing /\ request.kind = "done"

\* "Input this node is about to receive": what the field shows, and what a
\* decision makes of it, is the input of the gate the run is at.
ShownIsPending ==
    \A r \in Paused : \A g \in DOMAIN given[r] : given[r][g].gate = g

=============================================================================
