----------------------------- MODULE Web_proofs -----------------------------
(***************************************************************************)
(* The dashboard, for any runs, any number of gates, any closing of the    *)
(* socket, any graphs to chat with, and any number of messages.  What a    *)
(* gated node is given is an input of its own run; as long as the socket   *)
(* stayed open, a banner about a run that is over has its end on the way;  *)
(* the chat shows answers only, and as long as nothing has mixed it up the *)
(* last of them remembers as much of the conversation as there is room     *)
(* for.                                                                    *)
(***************************************************************************)
EXTENDS ApprovalBanner, Chat, FiniteSetTheorems, SequenceTheorems,
        WellFoundedInduction, TLAPS

-----------------------------------------------------------------------------
(* The approval banner.                                                    *)

Banners == [run: Paused, gate: Nat]
Texts   == [run: Paused, gate: Nat, edited: BOOLEAN]
Events  == [kind: {"paused", "over"}, run: Paused, gate: Nat]

Typed ==
    /\ status = [r \in Paused |-> status[r]]
    /\ gate \in [Paused -> Nat]
    /\ given \in [Paused -> Seq(Texts)]
    /\ events \in Seq(Events)
    /\ mountRead \in [stage: {"asked", "answered", "done"},
                      found: Banners \cup {Nothing}]
    /\ pendingApproval \in Banners \cup {Nothing}
    /\ request \in [kind: {"approve", "cancel", "done", "refused"},
                    run: Paused, text: Texts \cup {Nothing}] \cup {Nothing}

\* The text field holds a text of the run the banner shows, and what a
\* request sends is a text of the run it names: the effect that fills the
\* field is keyed on the run, and a request takes both at once.
FieldIsOfItsRun ==
    pendingApproval # Nothing =>
        editedInput \in Texts /\ editedInput.run = pendingApproval.run

SentIsOfItsRun ==
    request # Nothing =>
        request.text = Nothing \/ request.text.run = request.run

BannerInv ==
    Typed /\ FieldIsOfItsRun /\ SentIsOfItsRun /\ InputIsOfItsRun

-----------------------------------------------------------------------------

LEMMA BannerInvInit == BannerInit => BannerInv
<1> SUFFICES ASSUME BannerInit PROVE BannerInv
  OBVIOUS
<1>1. Typed
  BY DEF BannerInit, Typed, Banners, Texts, Events
<1>2. FieldIsOfItsRun /\ SentIsOfItsRun /\ InputIsOfItsRun
  BY DEF BannerInit, FieldIsOfItsRun, SentIsOfItsRun, InputIsOfItsRun
<1> QED BY <1>1, <1>2 DEF BannerInv

LEMMA OriginalIsText ==
    ASSUME NEW b \in Banners
    PROVE  Original(b) \in Texts /\ Original(b).run = b.run
  BY DEF Original, Banners, Texts

\* A banner comes up or goes down with a text of its own run.
LEMMA ShowsItsRun ==
    ASSUME FieldIsOfItsRun, NEW b \in Banners \cup {Nothing}, Show(b)
    PROVE  /\ pendingApproval' \in Banners \cup {Nothing}
           /\ FieldIsOfItsRun'
<1>1. CASE b = Nothing
  BY <1>1 DEF Show, FieldIsOfItsRun
<1>2. CASE b # Nothing /\ pendingApproval # Nothing
                       /\ pendingApproval.run = b.run
  BY <1>2 DEF Show, FieldIsOfItsRun
<1>3. CASE b # Nothing /\ ~(pendingApproval # Nothing
                              /\ pendingApproval.run = b.run)
  <2>1. editedInput' = Original(b) /\ pendingApproval' = b /\ b \in Banners
    BY <1>3 DEF Show
  <2> QED BY <2>1, OriginalIsText DEF FieldIsOfItsRun
<1> QED BY <1>1, <1>2, <1>3

LEMMA Unshown ==
    ASSUME FieldIsOfItsRun, UNCHANGED shownVars
    PROVE  FieldIsOfItsRun'
  BY DEF FieldIsOfItsRun, shownVars

LEMMA Published ==
    ASSUME events \in Seq(Events), NEW e \in Events, Publish(e)
    PROVE  events' \in Seq(Events)
  BY DEF Publish

\* A gated node is given one more text, of its own run.
LEMMA GivenItsOwn ==
    ASSUME Typed, InputIsOfItsRun, NEW r \in Paused,
           NEW text \in Texts, text.run = r, Approved(r, text)
    PROVE  /\ status' = [q \in Paused |-> status'[q]]
           /\ given' \in [Paused -> Seq(Texts)]
           /\ InputIsOfItsRun' /\ UNCHANGED <<gate, socketVars>>
<1>1. /\ given[r] \in Seq(Texts)
      /\ given' = [given EXCEPT ![r] = Append(given[r], text)]
      /\ status' = [status EXCEPT ![r] = "running"]
      /\ UNCHANGED <<gate, socketVars>>
  BY DEF Approved, Typed
<1>2. status' = [q \in Paused |-> status'[q]]
  BY <1>1 DEF Typed
<1>3. Append(given[r], text) \in Seq(Texts)
  BY <1>1
<1>4. given' \in [Paused -> Seq(Texts)]
  BY <1>1, <1>3 DEF Typed
<1>5. \A g \in DOMAIN given'[r] : given'[r][g].run = r
  <2>1. given'[r] = Append(given[r], text)
    BY <1>1 DEF Typed
  <2>2. \A g \in DOMAIN given[r] : given[r][g].run = r
    BY DEF InputIsOfItsRun
  <2> QED BY <1>1, <2>1, <2>2
<1>6. \A q \in Paused \ {r} : given'[q] = given[q]
  BY <1>1 DEF Typed
<1> QED BY <1>1, <1>2, <1>4, <1>5, <1>6 DEF InputIsOfItsRun

LEMMA CancelledTyped ==
    ASSUME Typed, NEW r \in Paused, Cancelled(r)
    PROVE  /\ status' = [q \in Paused |-> status'[q]]
           /\ events' \in Seq(Events) /\ UNCHANGED <<gate, given>>
<1>1. status' = [q \in Paused |-> status'[q]]
  BY DEF Cancelled, Typed
<1>2. [kind |-> "over", run |-> r, gate |-> gate[r]] \in Events
  BY DEF Typed, Events
<1> QED BY <1>1, <1>2, Published DEF Cancelled, Typed

LEMMA BannerInvStep == BannerInv /\ [BannerNext]_bannerVars => BannerInv'
<1> SUFFICES ASSUME BannerInv, [BannerNext]_bannerVars PROVE BannerInv'
  OBVIOUS
<1> USE DEF BannerInv
<1>1. ASSUME NEW r \in Paused, RunPauses(r) PROVE BannerInv'
  <2>1. [kind |-> "paused", run |-> r, gate |-> gate[r] + 1] \in Events
    BY DEF Typed, Events
  <2>2. events' \in Seq(Events)
    BY <1>1, <2>1, Published DEF RunPauses, Typed
  <2>3. /\ status' = [q \in Paused |-> status'[q]]
        /\ gate' \in [Paused -> Nat]
    <3>1. /\ status' = [status EXCEPT ![r] = "paused"]
          /\ gate' = [gate EXCEPT ![r] = gate[r] + 1]
      BY <1>1 DEF RunPauses
    <3>2. status' = [q \in Paused |-> status'[q]]
      BY <3>1 DEF Typed
    <3>3. gate' \in [Paused -> Nat]
      BY <3>1 DEF Typed
    <3> QED BY <3>2, <3>3
  <2>4. UNCHANGED <<given, mountRead, shownVars, request>>
    BY <1>1 DEF RunPauses
  <2> QED BY <2>2, <2>3, <2>4
          DEF Typed, FieldIsOfItsRun, SentIsOfItsRun, InputIsOfItsRun,
              shownVars
<1>2. ASSUME NEW r \in Paused, RunEnds(r) PROVE BannerInv'
  <2>1. [kind |-> "over", run |-> r, gate |-> gate[r]] \in Events
    BY DEF Typed, Events
  <2>2. events' \in Seq(Events)
    BY <1>2, <2>1, Published DEF RunEnds, Typed
  <2>3. status' = [q \in Paused |-> status'[q]]
    BY <1>2 DEF RunEnds, Typed
  <2>4. UNCHANGED <<gate, given, mountRead, shownVars, request>>
    BY <1>2 DEF RunEnds
  <2> QED BY <2>2, <2>3, <2>4
          DEF Typed, FieldIsOfItsRun, SentIsOfItsRun, InputIsOfItsRun,
              shownVars
<1>3. ASSUME NEW r \in Paused, OtherTab(r) PROVE BannerInv'
  <2>1. UNCHANGED <<mountRead, shownVars, request>>
    BY <1>3 DEF OtherTab
  <2>2. CASE Approved(r, Original([run |-> r, gate |-> gate[r]]))
    <3>1. [run |-> r, gate |-> gate[r]] \in Banners
      BY DEF Typed, Banners
    <3> DEFINE text == Original([run |-> r, gate |-> gate[r]])
    <3>2. text \in Texts /\ text.run = r
      BY <3>1, OriginalIsText
    <3> HIDE DEF text
    <3>3. Approved(r, text)
      BY <2>2 DEF text
    <3>4. /\ status' = [q \in Paused |-> status'[q]]
          /\ given' \in [Paused -> Seq(Texts)]
          /\ InputIsOfItsRun' /\ UNCHANGED <<gate, socketVars>>
      BY <3>2, <3>3, GivenItsOwn
    <3> QED BY <2>1, <3>4
            DEF Typed, FieldIsOfItsRun, SentIsOfItsRun, shownVars, socketVars
  <2>3. CASE Cancelled(r)
    BY <2>1, <2>3, CancelledTyped
    DEF Typed, FieldIsOfItsRun, SentIsOfItsRun, InputIsOfItsRun, shownVars
  <2> QED BY <1>3, <2>2, <2>3 DEF OtherTab
<1>4. CASE SocketCloses \/ SocketOpens
  <2>1. /\ events' \in Seq(Events)
        /\ UNCHANGED <<runVars, mountRead, shownVars, request>>
    <3>1. events \in Seq(Events) /\ <<>> \in Seq(Events)
      BY DEF Typed
    <3>2. events' = <<>> \/ events' = events
      BY <1>4 DEF SocketCloses, SocketOpens
    <3>3. UNCHANGED <<runVars, mountRead, shownVars, request>>
      BY <1>4 DEF SocketCloses, SocketOpens
    <3> QED BY <3>1, <3>2, <3>3
  <2>2. Typed'
    BY <2>1 DEF Typed, runVars, shownVars
  <2>3. FieldIsOfItsRun' /\ SentIsOfItsRun' /\ InputIsOfItsRun'
    BY <2>1
    DEF FieldIsOfItsRun, SentIsOfItsRun, InputIsOfItsRun, runVars, shownVars
  <2> QED BY <2>2, <2>3
<1>5. CASE Receive
  <2> DEFINE e == Head(events)
  <2>1. e \in Events /\ events' \in Seq(Events)
    BY <1>5 DEF Receive, Typed
  <2>2. /\ pendingApproval' \in Banners \cup {Nothing}
        /\ FieldIsOfItsRun'
    <3>1. [run |-> e.run, gate |-> e.gate] \in Banners
      BY <2>1 DEF Events, Banners
    <3> HIDE DEF e
    <3>2. Handle(e)
      BY <1>5 DEF Receive, e
    <3>3. CASE Show([run |-> e.run, gate |-> e.gate])
      BY <3>1, <3>3, ShowsItsRun
    <3>4. CASE Show(Nothing)
      BY <3>4, ShowsItsRun
    <3>5. CASE UNCHANGED shownVars
      BY <3>5, Unshown DEF Typed, shownVars
    <3> QED BY <3>2, <3>3, <3>4, <3>5 DEF Handle
  <2>3. UNCHANGED <<runVars, mountRead, request>>
    BY <1>5 DEF Receive
  <2> HIDE DEF e
  <2> QED BY <2>1, <2>2, <2>3
          DEF Typed, SentIsOfItsRun, InputIsOfItsRun, runVars
<1>6. CASE ReadRuns
  <2>1. mountRead' \in [stage: {"asked", "answered", "done"},
                        found: Banners \cup {Nothing}]
    BY <1>6 DEF ReadRuns, Typed, Banners
  <2> QED BY <1>6, <2>1
          DEF ReadRuns, Typed, FieldIsOfItsRun, SentIsOfItsRun,
              InputIsOfItsRun, runVars, socketVars, shownVars
<1>7. CASE RunsArrive
  <2>1. mountRead.found \in Banners \cup {Nothing}
    BY DEF Typed
  <2>2. /\ pendingApproval' \in Banners \cup {Nothing}
        /\ FieldIsOfItsRun'
    BY <1>7, <2>1, ShowsItsRun DEF RunsArrive
  <2>3. mountRead' \in [stage: {"asked", "answered", "done"},
                        found: Banners \cup {Nothing}]
    BY <1>7 DEF RunsArrive
  <2>4. UNCHANGED <<runVars, socketVars, request>>
    BY <1>7 DEF RunsArrive
  <2> QED BY <2>2, <2>3, <2>4
          DEF Typed, SentIsOfItsRun, InputIsOfItsRun, runVars, socketVars
<1>8. CASE NoRunIsPaused
  BY <1>8
  DEF NoRunIsPaused, Typed, FieldIsOfItsRun, SentIsOfItsRun,
      InputIsOfItsRun, runVars, socketVars, shownVars
<1>9. CASE Edit
  <2>1. editedInput \in Texts /\ editedInput.run = pendingApproval.run
    BY <1>9 DEF Edit, FieldIsOfItsRun
  <2>2. /\ editedInput' \in Texts /\ editedInput'.run = editedInput.run
        /\ UNCHANGED <<runVars, socketVars, mountRead, pendingApproval,
                       request>>
    BY <1>9, <2>1 DEF Edit, Texts
  <2> QED BY <2>1, <2>2
          DEF Typed, FieldIsOfItsRun, SentIsOfItsRun, InputIsOfItsRun,
              runVars, socketVars
<1>10. ASSUME NEW kind \in {"approve", "cancel"}, Ask(kind) PROVE BannerInv'
  <2>1. /\ editedInput \in Texts /\ editedInput.run = pendingApproval.run
        /\ pendingApproval \in Banners
    BY <1>10 DEF Ask, FieldIsOfItsRun, Typed
  <2> DEFINE text == IF editedInput = Original(pendingApproval)
                     THEN Nothing ELSE editedInput
  <2>2. /\ text \in Texts \cup {Nothing}
        /\ text = Nothing \/ text.run = pendingApproval.run
    BY <2>1
  <2>3. /\ request' = [kind |-> kind, run |-> pendingApproval.run,
                       text |-> text]
        /\ UNCHANGED <<runVars, socketVars, mountRead, shownVars>>
    BY <1>10 DEF Ask
  <2> HIDE DEF text
  <2>4. /\ request' \in [kind: {"approve", "cancel", "done", "refused"},
                         run: Paused, text: Texts \cup {Nothing}]
        /\ SentIsOfItsRun'
    BY <2>1, <2>2, <2>3 DEF SentIsOfItsRun, Banners
  <2> QED BY <2>3, <2>4
          DEF Typed, FieldIsOfItsRun, InputIsOfItsRun, runVars, socketVars,
              shownVars
<1>11. CASE Decide
  <2> DEFINE r == request.run
             mine == [run |-> r, gate |-> gate[r]]
             text == IF request.text = Nothing THEN Original(mine)
                     ELSE request.text
  <2>1. /\ request \in [kind: {"approve", "cancel", "done", "refused"},
                        run: Paused, text: Texts \cup {Nothing}]
        /\ UNCHANGED <<mountRead, shownVars>>
    BY <1>11 DEF Decide, Typed
  <2>2. text \in Texts /\ text.run = r
    <3>1. mine \in Banners
      BY <2>1 DEF Typed, Banners
    <3> HIDE DEF mine
    <3>2. Original(mine) \in Texts /\ Original(mine).run = mine.run
      BY <3>1, OriginalIsText
    <3>3. mine.run = r
      BY DEF mine
    <3>4. request.text # Nothing =>
              request.text \in Texts /\ request.text.run = r
      BY <1>11, <2>1 DEF Decide, SentIsOfItsRun
    <3> QED BY <3>2, <3>3, <3>4
  <2>3. \E k \in {"done", "refused"} : request' = [request EXCEPT !.kind = k]
    BY <1>11 DEF Decide, Decided
  <2>4. /\ request' \in [kind: {"approve", "cancel", "done", "refused"},
                         run: Paused, text: Texts \cup {Nothing}]
        /\ request'.run = request.run /\ request'.text = request.text
    BY <2>1, <2>3
  <2>5. SentIsOfItsRun'
    BY <1>11, <2>4 DEF SentIsOfItsRun, Decide
  <2>6. r \in Paused
    BY <2>1
  <2>7. \/ Approved(r, text) \/ Cancelled(r)
        \/ UNCHANGED <<runVars, socketVars>>
    BY <1>11 DEF Decide, Decided
  <2> HIDE DEF r, text
  <2>8. CASE Approved(r, text)
    <3>1. /\ status' = [q \in Paused |-> status'[q]]
          /\ given' \in [Paused -> Seq(Texts)]
          /\ InputIsOfItsRun' /\ UNCHANGED <<gate, socketVars>>
      BY <2>2, <2>6, <2>8, GivenItsOwn
    <3> QED BY <2>1, <2>4, <2>5, <3>1
            DEF Typed, FieldIsOfItsRun, shownVars, socketVars
  <2>9. CASE Cancelled(r)
    BY <2>1, <2>4, <2>5, <2>6, <2>9, CancelledTyped
    DEF Typed, FieldIsOfItsRun, InputIsOfItsRun, shownVars
  <2>10. CASE UNCHANGED <<runVars, socketVars>>
    BY <2>1, <2>4, <2>5, <2>10
    DEF Typed, FieldIsOfItsRun, InputIsOfItsRun, shownVars, runVars,
        socketVars
  <2> QED BY <2>7, <2>8, <2>9, <2>10
<1>12. CASE Answered
  <2>1. /\ pendingApproval' \in Banners \cup {Nothing}
        /\ FieldIsOfItsRun'
    <3>1. CASE Show(Nothing)
      BY <3>1, ShowsItsRun
    <3>2. CASE UNCHANGED shownVars
      BY <3>2, Unshown DEF Typed, shownVars
    <3> QED BY <1>12, <3>1, <3>2 DEF Answered
  <2>2. request' = Nothing /\ UNCHANGED <<runVars, socketVars, mountRead>>
    BY <1>12 DEF Answered
  <2> QED BY <2>1, <2>2
          DEF Typed, SentIsOfItsRun, InputIsOfItsRun, runVars, socketVars
<1>13. CASE UNCHANGED bannerVars
  BY <1>13
  DEF bannerVars, Typed, FieldIsOfItsRun, SentIsOfItsRun, InputIsOfItsRun
<1> QED BY <1>1, <1>2, <1>3, <1>4, <1>5, <1>6, <1>7, <1>8, <1>9, <1>10,
           <1>11, <1>12, <1>13
        DEF BannerNext

\* No gated node is ever given an input that was another run's, for any runs
\* and gates, however banners replace each other and requests cross.
\* (the effect keyed on pendingApproval.runId, approvePending)
THEOREM InputsStayWithTheirRun == BannerSpec => []InputIsOfItsRun
<1>1. BannerInv => InputIsOfItsRun
  BY DEF BannerInv
<1> QED BY BannerInvInit, BannerInvStep, <1>1, PTL DEF BannerSpec

-----------------------------------------------------------------------------
(* The banner comes down: whoever learns of a pause learns of its end.     *)

Over(r, i) ==
    \E j \in i..Len(events) : events[j].kind = "over" /\ events[j].run = r

\* A run is not over, or its end is on its way, after the first i - 1 events.
Known(r, i) == status[r] \in {"running", "paused"} \/ Over(r, i)

Hearing ==
    \/ events # <<>> \/ pendingApproval # Nothing
    \/ mountRead.stage = "answered"

\* What a canvas that has missed nothing shows, is about to show, or has in
\* the answer to its read.
Told ==
    /\ Hearing => socket
    /\ \A i \in DOMAIN events :
           events[i].kind = "paused" => Known(events[i].run, i)
    /\ pendingApproval # Nothing =>
           \/ Known(pendingApproval.run, 1)
           \/ request # Nothing /\ request.kind = "done"
    /\ mountRead.stage = "answered" /\ mountRead.found # Nothing =>
           Known(mountRead.found.run, 1)

ToldInv ==
    /\ drops \in Nat
    /\ mountRead.stage = "asked" => ~late
    /\ drops = 0 /\ ~late => Told

LEMMA ToldInvInit == BannerInit => ToldInv
  BY DEF BannerInit, ToldInv, Told, Hearing

\* An event is published, with the status it is about.
LEMMA PublishedIsTold ==
    ASSUME Typed, Told, NEW r \in Paused, NEW new, NEW e \in Events,
           Publish(e), status' = [status EXCEPT ![r] = new],
           \/ new \in {"running", "paused"}
           \/ e.kind = "over" /\ e.run = r,
           e.kind = "paused" => e.run = r,
           UNCHANGED <<socket, mountRead, pendingApproval>>,
           request # Nothing /\ request.kind = "done" =>
               request' # Nothing /\ request'.kind = "done"
    PROVE  Told'
<1>1. \A q \in Paused \ {r} : status'[q] = status[q]
  BY DEF Typed
<1>2. status'[r] = new
  BY DEF Typed
<1>3. CASE ~socket
  <2>1. ~Hearing /\ events' = events
    BY <1>3 DEF Told, Publish
  <2> QED BY <2>1 DEF Hearing, Told
<1>4. CASE socket
  <2>1. /\ events \in Seq(Events) /\ events' = Append(events, e)
        /\ Len(events) \in Nat
    BY <1>4 DEF Publish, Typed
  <2>2. /\ Len(events') = Len(events) + 1
        /\ DOMAIN events = 1..Len(events)
        /\ DOMAIN events' = 1..(Len(events) + 1)
        /\ \A i \in 1..Len(events) : events'[i] = events[i]
        /\ events'[Len(events) + 1] = e
    BY <2>1
  <2>3. ASSUME NEW q \in Paused, NEW i \in 1..(Len(events) + 1),
               Known(q, i) \/ q = r
        PROVE  Known(q, i)'
    <3>1. CASE Over(q, i)
      <4>1. PICK j \in i..Len(events) :
                events[j].kind = "over" /\ events[j].run = q
        BY <3>1 DEF Over
      <4>2. j \in 1..Len(events) /\ j \in i..Len(events')
        BY <2>1, <2>2
      <4> QED BY <2>2, <4>1, <4>2 DEF Known, Over
    <3>2. CASE q = r
      <4>1. CASE new \in {"running", "paused"}
        BY <1>2, <3>2, <4>1 DEF Known
      <4>2. CASE e.kind = "over" /\ e.run = r
        <5>1. Len(events) + 1 \in i..Len(events')
          BY <2>1, <2>2
        <5> QED BY <2>2, <3>2, <4>2, <5>1 DEF Known, Over
      <4> QED BY <4>1, <4>2
    <3>3. CASE ~Over(q, i) /\ q # r
      BY <1>1, <2>3, <3>3 DEF Known
    <3> QED BY <3>1, <3>2, <3>3
  <2>4. ASSUME NEW i \in DOMAIN events', events'[i].kind = "paused"
        PROVE  Known(events[i].run, i)'
    <3>1. events'[i] \in Events /\ i \in 1..(Len(events) + 1)
      BY <2>1, <2>2
    <3>2. PICK q \in Paused : q = events'[i].run
      BY <3>1 DEF Events
    <3>3. CASE i \in 1..Len(events)
      <4>1. events[i].run = q /\ events[i].kind = "paused"
        BY <2>2, <2>4, <3>2, <3>3
      <4>2. Known(q, i)
        BY <2>2, <3>3, <4>1 DEF Told
      <4>3. Known(q, i)'
        BY <2>3, <3>1, <4>2
      <4> QED BY <3>2, <4>3 DEF Known, Over
    <3>4. CASE i = Len(events) + 1
      <4>1. q = r
        BY <2>2, <2>4, <3>2, <3>4
      <4>2. Known(q, i)'
        BY <2>3, <3>1, <4>1
      <4> QED BY <3>2, <4>2 DEF Known, Over
    <3> QED BY <2>1, <3>1, <3>3, <3>4
  <2>5. ASSUME NEW q \in Paused, Known(q, 1) PROVE Known(q, 1)'
    BY <2>1, <2>3, <2>5
  <2>6. pendingApproval # Nothing /\ Known(pendingApproval.run, 1) =>
            Known(pendingApproval.run, 1)'
    <3> SUFFICES ASSUME pendingApproval # Nothing,
                        Known(pendingApproval.run, 1)
                 PROVE  Known(pendingApproval.run, 1)'
      OBVIOUS
    <3>1. PICK q \in Paused : q = pendingApproval.run
      BY DEF Typed, Banners
    <3>2. Known(q, 1)'
      BY <2>5, <3>1
    <3> QED BY <3>1, <3>2 DEF Known, Over
  <2>7. mountRead.found # Nothing /\ Known(mountRead.found.run, 1) =>
            Known(mountRead.found.run, 1)'
    <3> SUFFICES ASSUME mountRead.found # Nothing,
                        Known(mountRead.found.run, 1)
                 PROVE  Known(mountRead.found.run, 1)'
      OBVIOUS
    <3>1. PICK q \in Paused : q = mountRead.found.run
      BY DEF Typed, Banners
    <3>2. Known(q, 1)'
      BY <2>5, <3>1
    <3> QED BY <3>1, <3>2 DEF Known, Over
  <2> QED BY <1>4, <2>4, <2>6, <2>7 DEF Told, Hearing
<1> QED BY <1>3, <1>4

\* Nothing is published, no run ends, and the banner is what it was, or what
\* the read has found, or gone.
LEMMA QuietIsTold ==
    ASSUME Typed, Told, events' = events, socket => socket',
           \A q \in Paused : status[q] \in {"running", "paused"} =>
                              status'[q] \in {"running", "paused"},
           mountRead'.stage = "answered" => mountRead' = mountRead,
           \/ /\ pendingApproval' = pendingApproval
              /\ request # Nothing /\ request.kind = "done" =>
                     request' # Nothing /\ request'.kind = "done"
           \/ /\ mountRead.stage = "answered"
              /\ pendingApproval' = mountRead.found
           \/ pendingApproval' = Nothing
    PROVE  Told'
<1>1. ASSUME NEW q \in Paused, NEW i, Known(q, i) PROVE Known(q, i)'
  BY <1>1 DEF Known, Over
<1>2. Hearing' => socket'
  BY DEF Told, Hearing
<1>3. ASSUME NEW i \in DOMAIN events', events'[i].kind = "paused"
      PROVE  Known(events[i].run, i)'
  <2>1. events[i] \in Events
    BY DEF Typed
  <2>2. PICK q \in Paused : q = events[i].run
    BY <2>1 DEF Events
  <2>3. Known(q, i)'
    BY <1>1, <1>3, <2>2 DEF Told
  <2> QED BY <2>2, <2>3 DEF Known, Over
<1>4. pendingApproval # Nothing /\ Known(pendingApproval.run, 1) =>
          \A q \in Paused : q = pendingApproval.run => Known(q, 1)'
  BY <1>1
<1>5. mountRead.found # Nothing /\ Known(mountRead.found.run, 1) =>
          \A q \in Paused : q = mountRead.found.run => Known(q, 1)'
  BY <1>1
<1>6. /\ pendingApproval # Nothing => pendingApproval.run \in Paused
      /\ mountRead.found # Nothing => mountRead.found.run \in Paused
  BY DEF Typed, Banners
<1>7. (pendingApproval # Nothing =>
          \/ Known(pendingApproval.run, 1)
          \/ request # Nothing /\ request.kind = "done")'
  <2>1. CASE pendingApproval' = pendingApproval
    BY <1>4, <1>6, <2>1 DEF Told, Known, Over
  <2>2. CASE /\ mountRead.stage = "answered"
             /\ pendingApproval' = mountRead.found
    BY <1>5, <1>6, <2>2 DEF Told, Known, Over
  <2> QED BY <2>1, <2>2
<1>8. (mountRead.stage = "answered" /\ mountRead.found # Nothing =>
          Known(mountRead.found.run, 1))'
  BY <1>5, <1>6 DEF Told, Known, Over
<1> QED BY <1>2, <1>3, <1>7, <1>8 DEF Told

LEMMA ReceivedIsTold ==
    ASSUME Typed, Told, Receive, mountRead.stage # "answered"
    PROVE  Told'
<1> DEFINE e == Head(events)
<1>1. /\ events # <<>> /\ events' = Tail(events) /\ socket
      /\ UNCHANGED <<status, socket, mountRead, request>>
  BY DEF Receive, Told, Hearing, runVars
<1>2. /\ e = events[1] /\ e \in Events /\ Len(events) \in Nat
      /\ Len(events) > 0 /\ Len(events') = Len(events) - 1
      /\ DOMAIN events = 1..Len(events)
      /\ DOMAIN events' = 1..(Len(events) - 1)
      /\ \A i \in 1..(Len(events) - 1) : events'[i] = events[i + 1]
  BY <1>1 DEF Typed
<1>3. Handle(e)
  BY DEF Receive
<1> HIDE DEF e
\* What is known after one more event is known after its end.
<1>4. ASSUME NEW q \in Paused, NEW i \in Nat \ {0}, Known(q, i + 1)
      PROVE  Known(q, i)'
  <2>1. CASE Over(q, i + 1)
    <3>1. PICK j \in (i + 1)..Len(events) :
              events[j].kind = "over" /\ events[j].run = q
      BY <2>1 DEF Over
    <3>2. /\ j - 1 \in 1..(Len(events) - 1) /\ (j - 1) + 1 = j
          /\ j - 1 \in i..Len(events')
      BY <1>2, <3>1
    <3>3. events'[j - 1] = events[j]
      BY <1>2, <3>2
    <3> QED BY <3>1, <3>2, <3>3 DEF Known, Over
  <2>2. CASE ~Over(q, i + 1)
    BY <1>1, <1>4, <2>2 DEF Known
  <2> QED BY <2>1, <2>2
<1>5. ASSUME NEW q \in Paused, Known(q, 1), ~(e.kind = "over" /\ e.run = q)
      PROVE  Known(q, 1)'
  <2>1. Known(q, 2)
    <3>1. CASE Over(q, 1)
      <4>1. PICK j \in 1..Len(events) :
                events[j].kind = "over" /\ events[j].run = q
        BY <3>1 DEF Over
      <4>2. j # 1
        BY <1>2, <1>5, <4>1
      <4>3. j \in 2..Len(events)
        BY <1>2, <4>1, <4>2
      <4> QED BY <4>1, <4>3 DEF Known, Over
    <3>2. CASE ~Over(q, 1)
      BY <1>5, <3>2 DEF Known
    <3> QED BY <3>1, <3>2
  <2>2. Known(q, 1 + 1)
    BY <2>1
  <2> QED BY <1>4, <2>2
<1>6. ASSUME NEW i \in DOMAIN events', events'[i].kind = "paused"
      PROVE  Known(events[i].run, i)'
  <2>1. /\ i \in Nat \ {0} /\ i + 1 \in DOMAIN events
        /\ events'[i] = events[i + 1]
    BY <1>2
  <2>2. PICK q \in Paused : q = events'[i].run
    <3>1. events[i + 1] \in Events
      BY <2>1 DEF Typed
    <3> QED BY <2>1, <3>1 DEF Events
  <2>3. Known(q, i + 1)
    BY <1>6, <2>1, <2>2 DEF Told
  <2>4. Known(q, i)'
    BY <1>4, <2>1, <2>3
  <2> QED BY <2>2, <2>4 DEF Known, Over
<1>7. (pendingApproval # Nothing =>
          \/ Known(pendingApproval.run, 1)
          \/ request # Nothing /\ request.kind = "done")'
  <2>1. CASE e.kind = "paused"
    <3>1. e.run \in Paused /\ Known(e.run, 1)
      BY <1>2, <2>1 DEF Events, Told
    <3>2. PICK q \in Paused : q = e.run
      BY <3>1
    <3>3. Known(q, 1)'
      BY <1>5, <2>1, <3>1, <3>2
    <3>4. pendingApproval' = [run |-> e.run, gate |-> e.gate]
      BY <1>3, <2>1 DEF Handle, Show
    <3>5. pendingApproval'.run = q
      BY <3>2, <3>4
    <3> QED BY <3>3, <3>5 DEF Known, Over
  <2>2. CASE /\ e.kind # "paused" /\ pendingApproval # Nothing
             /\ pendingApproval.run = e.run
    BY <1>3, <2>2 DEF Handle, Show
  <2>3. CASE /\ e.kind # "paused"
             /\ ~(pendingApproval # Nothing /\ pendingApproval.run = e.run)
    <3>1. pendingApproval' = pendingApproval
      BY <1>3, <2>3 DEF Handle, shownVars
    <3>2. CASE pendingApproval # Nothing /\ Known(pendingApproval.run, 1)
      <4>1. PICK q \in Paused : q = pendingApproval.run
        BY <3>2 DEF Typed, Banners
      <4>2. Known(q, 1)'
        BY <1>5, <2>3, <3>2, <4>1
      <4> QED BY <3>1, <4>1, <4>2 DEF Known, Over
    <3> QED BY <1>1, <3>1, <3>2 DEF Told
  <2> QED BY <2>1, <2>2, <2>3
<1> QED BY <1>1, <1>6, <1>7 DEF Told, Hearing

LEMMA ToldInvStep ==
    BannerInv /\ ToldInv /\ [BannerNext]_bannerVars => ToldInv'
<1> SUFFICES ASSUME BannerInv, ToldInv, [BannerNext]_bannerVars
             PROVE  ToldInv'
  OBVIOUS
<1> USE DEF BannerInv
<1>0. Typed
  OBVIOUS
\* What was told is kept by a step that counts no drop and begins no read
\* that an event has overtaken.
<1>1. ASSUME drops' = drops, mountRead'.stage = "asked" => ~late',
             late => late', Told => Told'
      PROVE  ToldInv'
  BY <1>1 DEF ToldInv
<1>2. ASSUME NEW r \in Paused, RunPauses(r) PROVE ToldInv'
  <2> DEFINE e == [kind |-> "paused", run |-> r, gate |-> gate[r] + 1]
  <2>1. e \in Events /\ e.kind = "paused" /\ e.run = r
    BY DEF Typed, Events
  <2>2. /\ Publish(e) /\ status' = [status EXCEPT ![r] = "paused"]
        /\ UNCHANGED <<socket, drops, mountRead, late, pendingApproval,
                       request>>
    BY <1>2 DEF RunPauses, shownVars
  <2> HIDE DEF e
  <2>3. Told => Told'
    BY <1>0, <2>1, <2>2, PublishedIsTold
  <2> QED BY <1>1, <2>2, <2>3 DEF ToldInv
<1>3. ASSUME NEW r \in Paused, NEW new,
             Publish([kind |-> "over", run |-> r, gate |-> gate[r]]),
             status' = [status EXCEPT ![r] = new],
             request # Nothing /\ request.kind = "done" =>
                 request' # Nothing /\ request'.kind = "done",
             UNCHANGED <<socket, drops, mountRead, late, pendingApproval>>
      PROVE  ToldInv'
  <2> DEFINE e == [kind |-> "over", run |-> r, gate |-> gate[r]]
  <2>1. e \in Events /\ e.kind = "over" /\ e.run = r
    BY DEF Typed, Events
  <2>2. Publish(e)
    BY <1>3
  <2> HIDE DEF e
  <2>3. Told => Told'
    BY <1>0, <1>3, <2>1, <2>2, PublishedIsTold
  <2> QED BY <1>1, <1>3, <2>3 DEF ToldInv
<1>4. ASSUME NEW r \in Paused, RunEnds(r) PROVE ToldInv'
  BY <1>3, <1>4 DEF RunEnds, shownVars
<1>5. ASSUME UNCHANGED <<events, socket, drops, mountRead, late,
                         pendingApproval>>,
             \A q \in Paused : status[q] \in {"running", "paused"} =>
                                status'[q] \in {"running", "paused"},
             request # Nothing /\ request.kind = "done" =>
                 request' # Nothing /\ request'.kind = "done"
      PROVE  ToldInv'
  <2>1. Told => Told'
    BY <1>0, <1>5, QuietIsTold
  <2> QED BY <1>1, <1>5, <2>1 DEF ToldInv
<1>6. ASSUME NEW r \in Paused, NEW text, Approved(r, text)
      PROVE  /\ UNCHANGED <<events, socket, drops>>
             /\ \A q \in Paused : status[q] \in {"running", "paused"} =>
                                   status'[q] \in {"running", "paused"}
  BY <1>6 DEF Approved, socketVars, Typed
<1>7. ASSUME NEW r \in Paused, OtherTab(r) PROVE ToldInv'
  <2>1. UNCHANGED <<mountRead, late, pendingApproval, request>>
    BY <1>7 DEF OtherTab, shownVars
  <2>2. CASE Approved(r, Original([run |-> r, gate |-> gate[r]]))
    BY <1>5, <1>6, <2>1, <2>2
  <2>3. CASE Cancelled(r)
    BY <1>3, <2>1, <2>3 DEF Cancelled
  <2> QED BY <1>7, <2>2, <2>3 DEF OtherTab
<1>8. CASE SocketCloses
  BY <1>8 DEF SocketCloses, ToldInv
<1>9. CASE SocketOpens
  <2>1. /\ socket' /\ UNCHANGED <<runVars, events, drops, mountRead, late,
                                  pendingApproval, request>>
    BY <1>9 DEF SocketOpens, shownVars
  <2>2. Told => Told'
    BY <1>0, <2>1, QuietIsTold DEF runVars
  <2> QED BY <1>1, <2>1, <2>2 DEF ToldInv
<1>10. CASE Receive
  <2>1. /\ drops' = drops /\ mountRead' = mountRead
        /\ late' = (late \/ mountRead.stage = "answered")
    BY <1>10 DEF Receive
  <2>2. Told /\ mountRead.stage # "answered" => Told'
    BY <1>0, <1>10, ReceivedIsTold
  <2> QED BY <2>1, <2>2 DEF ToldInv
<1>11. CASE ReadRuns
  <2>1. /\ mountRead.stage = "asked" /\ late' = ~socket
        /\ UNCHANGED <<runVars, socketVars, shownVars, request>>
    BY <1>11 DEF ReadRuns
  <2>2. PICK r \in Paused :
            /\ status[r] = "paused"
            /\ mountRead' = [stage |-> "answered",
                             found |-> [run |-> r, gate |-> gate[r]]]
    BY <1>11 DEF ReadRuns
  <2>3. mountRead'.stage = "answered" /\ mountRead'.found.run = r
    BY <2>2
  <2>4. Told /\ socket => Told'
    BY <2>1, <2>2, <2>3
    DEF Told, Hearing, Known, Over, runVars, socketVars, shownVars
  <2> QED BY <2>1, <2>3, <2>4 DEF ToldInv, socketVars
<1>12. CASE RunsArrive
  <2>1. /\ mountRead.stage = "answered" /\ mountRead'.stage = "done"
        /\ pendingApproval' = mountRead.found
        /\ UNCHANGED <<status, events, socket, drops, late, request>>
    BY <1>12 DEF RunsArrive, Show, runVars, socketVars
  <2>2. Told => Told'
    BY <1>0, <2>1, QuietIsTold
  <2> QED BY <1>1, <2>1, <2>2
<1>13. CASE NoRunIsPaused
  <2>1. /\ mountRead'.stage = "done"
        /\ UNCHANGED <<status, events, socket, drops, late, pendingApproval,
                       request>>
    BY <1>13 DEF NoRunIsPaused, runVars, socketVars, shownVars
  <2>2. Told => Told'
    BY <1>0, <2>1, QuietIsTold
  <2> QED BY <1>1, <2>1, <2>2
<1>14. CASE Edit
  BY <1>5, <1>14 DEF Edit, runVars, socketVars
<1>15. ASSUME NEW kind \in {"approve", "cancel"}, Ask(kind) PROVE ToldInv'
  BY <1>5, <1>15 DEF Ask, runVars, socketVars, shownVars
<1>16. CASE Decide
  <2>1. /\ request # Nothing /\ request.kind \in {"approve", "cancel"}
        /\ UNCHANGED <<mountRead, late, pendingApproval>>
    BY <1>16 DEF Decide, shownVars
  <2>2. request.run \in Paused
    BY <2>1 DEF Typed
  <2>3. \/ \E text : Approved(request.run, text)
        \/ Cancelled(request.run)
        \/ UNCHANGED <<runVars, socketVars>>
    BY <1>16 DEF Decide, Decided
  <2>4. CASE \E text : Approved(request.run, text)
    BY <1>5, <1>6, <2>1, <2>2, <2>4
  <2>5. CASE Cancelled(request.run)
    BY <1>3, <2>1, <2>2, <2>5 DEF Cancelled
  <2>6. CASE UNCHANGED <<runVars, socketVars>>
    BY <1>5, <2>1, <2>6 DEF runVars, socketVars
  <2> QED BY <2>3, <2>4, <2>5, <2>6
<1>17. CASE Answered
  <2>1. /\ request # Nothing
        /\ UNCHANGED <<status, events, socket, drops, mountRead, late>>
        /\ IF request.kind = "done" THEN pendingApproval' = Nothing
           ELSE pendingApproval' = pendingApproval
    BY <1>17 DEF Answered, Show, runVars, socketVars, shownVars
  <2>2. Told => Told'
    BY <1>0, <2>1, QuietIsTold
  <2> QED BY <1>1, <2>1, <2>2 DEF ToldInv
<1>18. CASE UNCHANGED bannerVars
  BY <1>5, <1>18 DEF bannerVars
<1> QED BY <1>2, <1>4, <1>7, <1>8, <1>9, <1>10, <1>11, <1>12, <1>13, <1>14,
           <1>15, <1>16, <1>17, <1>18
        DEF BannerNext

\* With a socket that stayed open and a read that overtook no event, a banner
\* about a run that is over has its end on the way or this tab's own decision
\* about to take it down, for any runs and gates.  (the socket's handler and
\* the read at mount in HierarchyCanvas.tsx)
THEOREM BannersComeDown == BannerSpec => []BannerComesDown
<1>1. ToldInv => BannerComesDown
  <2> SUFFICES ASSUME ToldInv, pendingApproval # Nothing, drops = 0, ~late
               PROVE  \/ Known(pendingApproval.run, 1)
                      \/ request # Nothing /\ request.kind = "done"
    BY DEF BannerComesDown, Known, Over
  <2> QED BY DEF ToldInv, Told
<1> QED
  BY BannerInvInit, BannerInvStep, ToldInvInit, ToldInvStep, <1>1, PTL
  DEF BannerSpec

-----------------------------------------------------------------------------
(* The chat.  First the enumeration of a set of turns in their order.      *)

LEMMA LeastOf ==
    ASSUME NEW T, T \subseteq Nat, T # {}
    PROVE  \E m \in T : \A k \in T : m <= k
  <1>1. PICK m \in T : \A k \in T : <<k, m>> \notin OpToRel(<, Nat)
    BY NatLessThanWellFounded, WFMin
  <1>2. \A k \in T : ~(k < m)
    BY <1>1 DEF OpToRel
  <1> QED
    BY <1>2

LEMMA RankExists ==
    ASSUME NEW n \in Nat, NEW S \in SUBSET (1..n), NEW k \in 1..Cardinality(S)
    PROVE  Ranked(S, k) # {}
  <1> DEFINE U(m) == {y \in S : y <= m}
             r(m) == Cardinality(U(m))
             T == {m \in Nat : k <= r(m)}
  <1>1. IsFiniteSet(S) /\ Cardinality(S) \in Nat
    <2>1. IsFiniteSet(1..n)
      BY FS_Interval
    <2> QED
      BY <2>1, FS_Subset, FS_CardinalityType
  <1>2. ASSUME NEW m \in Nat PROVE IsFiniteSet(U(m)) /\ r(m) \in Nat
    <2>1. U(m) \in SUBSET S
      OBVIOUS
    <2> QED
      BY <1>1, <2>1, FS_Subset, FS_CardinalityType
  <1>0. \A y \in S : y \in Nat /\ 1 <= y /\ y <= n
    OBVIOUS
  <1>3. U(n) = S /\ U(0) = {}
    <2>1. \A y \in S : y <= n /\ ~(y <= 0)
      BY <1>0
    <2> QED
      BY <2>1
  <1>4. n \in T /\ 0 \notin T
    BY <1>1, <1>3, FS_EmptySet
  <1>5. PICK m \in T : \A j \in T : m <= j
    <2>1. T \subseteq Nat /\ T # {}
      BY <1>4
    <2> HIDE DEF T
    <2> QED
      BY <2>1, LeastOf
  <1>6. m \in Nat /\ m # 0 /\ m - 1 \in Nat /\ m - 1 \notin T
    <2>1. m \in Nat /\ m # 0
      BY <1>4, <1>5
    <2>2. m - 1 \in Nat /\ ~(m <= m - 1)
      BY <2>1
    <2> HIDE DEF T
    <2> QED
      BY <1>5, <2>1, <2>2
  <1>7. U(m) = IF m \in S THEN U(m - 1) \cup {m} ELSE U(m - 1)
    <2>1. \A y \in S : y <= m <=> y = m \/ y <= m - 1
      BY <1>0, <1>6
    <2> QED
      BY <2>1, <1>6
  <1>8. m \notin U(m - 1)
    BY <1>6
  <1>9. r(m) <= r(m - 1) + 1 /\ (m \notin S => r(m) = r(m - 1))
    <2>1. IsFiniteSet(U(m - 1)) /\ r(m - 1) \in Nat
      BY <1>2, <1>6
    <2> HIDE DEF U
    <2> QED
      BY <1>7, <1>8, <2>1, FS_AddElement
  <1>10. r(m) \in Nat /\ r(m - 1) \in Nat /\ k <= r(m) /\ ~(k <= r(m - 1))
    BY <1>2, <1>5, <1>6
  <1>11. m \in S /\ r(m) = k
    <2> HIDE DEF r
    <2> QED
      BY <1>9, <1>10
  <1> QED
    BY <1>11 DEF Ranked

LEMMA InOrderMembers ==
    ASSUME NEW n \in Nat, NEW S \in SUBSET (1..n)
    PROVE  /\ InOrder(S) \in Seq(Nat)
           /\ \A i \in DOMAIN InOrder(S) : InOrder(S)[i] \in S
  <1>1. Cardinality(S) \in Nat
    <2>1. IsFiniteSet(1..n)
      BY FS_Interval
    <2> QED
      BY <2>1, FS_Subset, FS_CardinalityType
  <1>2. ASSUME NEW k \in 1..Cardinality(S)
        PROVE  (CHOOSE x \in Ranked(S, k) : TRUE) \in S
    <2>1. Ranked(S, k) # {}
      BY RankExists
    <2> QED
      BY <2>1 DEF Ranked
  <1>3. DOMAIN InOrder(S) = 1..Cardinality(S)
    BY DEF InOrder
  <1>4. \A i \in DOMAIN InOrder(S) : InOrder(S)[i] \in S
    BY <1>2 DEF InOrder
  <1>5. InOrder(S) \in [1..Cardinality(S) -> Nat]
    <2>1. S \subseteq Nat
      OBVIOUS
    <2> QED
      BY <1>2, <2>1 DEF InOrder
  <1> QED
    BY <1>1, <1>4, <1>5

LEMMA InOrderNone == InOrder({}) = <<>>
  BY FS_EmptySet DEF InOrder

LEMMA InOrderAppend ==
    ASSUME NEW n \in Nat, NEW S \in SUBSET (1..n), NEW t \in Nat, t > n
    PROVE  InOrder(S \cup {t}) = Append(InOrder(S), t)
  <1> DEFINE c == Cardinality(S)
  <1>1. IsFiniteSet(S) /\ c \in Nat
    <2>1. IsFiniteSet(1..n)
      BY FS_Interval
    <2> QED
      BY <2>1, FS_Subset, FS_CardinalityType
  <1>0. \A y \in S : y \in Nat /\ y < t
    OBVIOUS
  <1>2. t \notin S
    BY <1>0
  <1>3. Cardinality(S \cup {t}) = c + 1
    BY <1>1, <1>2, FS_AddElement
  <1>4. \A x \in S : {y \in S \cup {t} : y <= x} = {y \in S : y <= x}
    <2>1. \A x \in S : ~(t <= x)
      BY <1>0
    <2> QED
      BY <2>1
  <1>5. {y \in S \cup {t} : y <= t} = S \cup {t}
    <2>1. \A y \in S \cup {t} : y <= t
      BY <1>0
    <2> QED
      BY <2>1
  <1>6. ASSUME NEW k \in 1..c PROVE Ranked(S \cup {t}, k) = Ranked(S, k)
    <2>1. t \notin Ranked(S \cup {t}, k)
      BY <1>1, <1>3, <1>5 DEF Ranked
    <2>2. \A x \in S : x \in Ranked(S \cup {t}, k) <=> x \in Ranked(S, k)
      BY <1>4 DEF Ranked
    <2> QED
      BY <2>1, <2>2 DEF Ranked
  <1>7. Ranked(S \cup {t}, c + 1) = {t}
    <2>1. ASSUME NEW x \in S PROVE Cardinality({y \in S : y <= x}) \in Nat
                                   /\ Cardinality({y \in S : y <= x}) <= c
      <3>1. {y \in S : y <= x} \in SUBSET S
        OBVIOUS
      <3> QED
        BY <1>1, <3>1, FS_Subset, FS_CardinalityType
    <2>2. \A x \in S : x \notin Ranked(S \cup {t}, c + 1)
      <3> SUFFICES ASSUME NEW x \in S,
                          Cardinality({y \in S \cup {t} : y <= x}) = c + 1
                   PROVE  FALSE
        BY DEF Ranked
      <3>1. Cardinality({y \in S : y <= x}) = c + 1
        BY <1>4
      <3> QED
        BY <1>1, <2>1, <3>1
    <2>3. t \in Ranked(S \cup {t}, c + 1)
      BY <1>3, <1>5 DEF Ranked
    <2> QED
      BY <2>2, <2>3 DEF Ranked
  <1> DEFINE f == InOrder(S)
             g == InOrder(S \cup {t})
  <1>8. DOMAIN g = 1..c + 1 /\ DOMAIN f = 1..c
    BY <1>3 DEF InOrder
  <1>9. g[c + 1] = t
    <2>1. c + 1 \in 1..c + 1
      BY <1>1
    <2>2. g[c + 1] = CHOOSE x \in Ranked(S \cup {t}, c + 1) : TRUE
      BY <1>3, <2>1 DEF InOrder
    <2> QED
      BY <1>7, <2>2
  <1>10. ASSUME NEW k \in 1..c PROVE g[k] = f[k]
    <2>1. k \in 1..c + 1
      BY <1>1
    <2>2. g[k] = CHOOSE x \in Ranked(S \cup {t}, k) : TRUE
      BY <1>3, <2>1 DEF InOrder
    <2>3. f[k] = CHOOSE x \in Ranked(S, k) : TRUE
      BY DEF InOrder
    <2> QED
      BY <1>6, <2>2, <2>3
  <1>11. f \in Seq(Nat) /\ g \in Seq(Nat)
    <2>1. S \cup {t} \in SUBSET (1..t)
      <3>1. \A y \in S : y \in 1..n
        OBVIOUS
      <3>2. \A y \in S : y \in 1..t
        BY <1>0, <3>1
      <3> QED
        BY <3>2
    <2> QED
      BY <2>1, InOrderMembers
  <1> HIDE DEF c, f, g
  <1>12. Len(f) = c /\ Len(g) = c + 1
    BY <1>1, <1>8, <1>11
  <1> QED
    <2>1. g = Append(f, t)
      BY <1>1, <1>9, <1>10, <1>11, <1>12
    <2> QED
      BY <2>1 DEF f, g

-----------------------------------------------------------------------------

Statuses == Live \cup {"completed", "error", "cancelled"}

\* The transcript of t, among the turns T, is what is left of s.
KeptOf(T, whole, end) ==
    {SubSeq(whole, k, Len(whole)) :
        k \in {k \in 1..Len(whole) :
                  /\ k < Len(whole) => end - T[whole[k]].before <= Room
                  /\ \A j \in 1..(k - 1) :
                         ~(end - T[whole[j]].before <= Room)}}
Remembers(T, t, s) ==
    T[t].transcript \in KeptOf(T, s, T[t].before + T[t].message)

TurnType == [bot: Bots, status: Statuses, transcript: Seq(Nat), before: Nat,
             message: Sizes, answer: Sizes]

ChatTyped ==
    /\ bot \in Bots
    /\ turns \in Seq(TurnType)
    /\ shown \in Seq(Nat) /\ \A i \in DOMAIN shown : shown[i] \in Turn
    /\ sends \in SUBSET Turn
    /\ loads \in SUBSET [bot: Bots, found: Seq(Nat)]

\* What a load will show has been answered as well.
LoadsAreAnswers ==
    \A l \in loads : \A i \in DOMAIN l.found :
        l.found[i] \in Turn /\ turns[l.found[i]].status = "completed"

\* While nothing has mixed up the conversation there is a load under way or a
\* turn, never both, and what is shown is all that has been answered before.
NothingElse ==
    /\ \A t \in Turn \ sends : turns[t].status \in {"completed", "error"}
    /\ sends \subseteq {Len(turns)}
    /\ sends = {} \/ loads = {}
    /\ \A l \in loads : l.found = Completed(bot)

ShownIsAll ==
    /\ loads = {} /\ sends = {} => shown = Completed(bot)
    /\ \A t \in sends :
           /\ turns[t].bot = bot
           /\ Remembers(turns, t, Append(shown, t))
           /\ turns[t].status # "completed" => Completed(bot) = shown
           /\ turns[t].status = "completed" =>
                  Completed(bot) = Append(shown, t)

LastRemembers ==
    \A b \in Bots : Completed(b) # <<>> =>
        Remembers(turns, Last(Completed(b)), Completed(b))

ChatInv ==
    /\ OnlyAnswersShown /\ LoadsAreAnswers
    /\ mixups = {} =>
           NothingElse /\ ShownIsAll /\ LastRemembers /\ NothingForgotten


LEMMA CompletedFacts ==
    ASSUME ChatTyped, NEW b
    PROVE  /\ AnsweredTurns(b) \in SUBSET (1..Len(turns)) /\ Len(turns) \in Nat
           /\ Completed(b) \in Seq(Nat)
           /\ \A i \in DOMAIN Completed(b) : Completed(b)[i] \in AnsweredTurns(b)
  <1>1. AnsweredTurns(b) \in SUBSET (1..Len(turns)) /\ Len(turns) \in Nat
    BY DEF ChatTyped, AnsweredTurns, Turn
  <1> QED
    BY <1>1, InOrderMembers DEF Completed

LEMMA LastIsTurn ==
    ASSUME ChatTyped, shown # <<>>
    PROVE  /\ Last(shown) \in Turn /\ turns[Last(shown)] \in TurnType
           /\ Upto(Last(shown)) \in Nat /\ Whole(Last(shown)) \in Nat
           /\ Upto(Last(shown)) <= Whole(Last(shown))
  <1>1. shown \in Seq(Nat) /\ \A i \in DOMAIN shown : shown[i] \in Turn
    BY DEF ChatTyped
  <1>2. Len(shown) \in DOMAIN shown
    BY <1>1
  <1>3. Last(shown) \in Turn
    BY <1>1, <1>2 DEF Last
  <1>4. turns[Last(shown)] \in TurnType
    BY <1>3 DEF ChatTyped, Turn
  <1>5. /\ turns[Last(shown)].before \in Nat
        /\ turns[Last(shown)].message \in Nat
        /\ turns[Last(shown)].answer \in Nat
    BY <1>4, ChatAssumption DEF TurnType
  <1>6. /\ Upto(Last(shown)) = turns[Last(shown)].before
                                 + turns[Last(shown)].message
        /\ Whole(Last(shown)) = Upto(Last(shown)) + turns[Last(shown)].answer
    BY DEF Upto, Whole
  <1> QED
    BY <1>3, <1>4, <1>5, <1>6

LEMMA PriorType ==
    ASSUME ChatTyped PROVE Prior \in Seq(Nat)
  <1>1. CASE shown = <<>>
    BY <1>1 DEF Prior
  <1>2. CASE shown # <<>>
    BY <1>2, LastIsTurn DEF Prior, TurnType
  <1> QED
    BY <1>1, <1>2

LEMMA KeptIsOf ==
    \A s, e : Kept(s, e) = KeptOf(turns, s, e)
  BY DEF Kept, KeptOf, Fits

\* What is left of a transcript is one.
LEMMA KeptType ==
    ASSUME NEW T, NEW s \in Seq(Nat), NEW e, NEW w \in KeptOf(T, s, e)
    PROVE  w \in Seq(Nat)
  <1>1. PICK k \in 1..Len(s) : w = SubSeq(s, k, Len(s))
    BY DEF KeptOf
  <1>2. \A i \in k..Len(s) : s[i] \in Nat
    OBVIOUS
  <1> QED
    BY <1>1, <1>2, SubSeqProperties

\* What is left of it depends on where its turns but the last begin.
LEMMA KeptSame ==
    ASSUME NEW T, NEW U, NEW s \in Seq(Nat), NEW e,
           \A i \in 1..Len(s) : i # Len(s) => U[s[i]].before = T[s[i]].before
    PROVE  KeptOf(U, s, e) = KeptOf(T, s, e)
  <1>1. ASSUME NEW k \in 1..Len(s)
        PROVE  /\ (k < Len(s) => e - U[s[k]].before <= Room)
                      <=> (k < Len(s) => e - T[s[k]].before <= Room)
               /\ (\A j \in 1..(k - 1) : ~(e - U[s[j]].before <= Room))
                      <=> (\A j \in 1..(k - 1) : ~(e - T[s[j]].before <= Room))
    <2>1. \A j \in 1..(k - 1) : U[s[j]].before = T[s[j]].before
      <3>1. \A j \in 1..(k - 1) : j \in 1..Len(s) /\ j # Len(s)
        OBVIOUS
      <3> QED
        BY <3>1
    <2>2. k < Len(s) => U[s[k]].before = T[s[k]].before
      OBVIOUS
    <2> QED
      BY <2>1, <2>2
  <1> QED
    BY <1>1 DEF KeptOf

LEMMA Ending ==
    ASSUME NEW s \in Seq(Nat), NEW n \in Nat, n = Len(s), NEW k \in 1..n
    PROVE  /\ SubSeq(s, k, n) \in Seq(Nat)
           /\ Len(SubSeq(s, k, n)) = n + 1 - k
           /\ \A i \in 1..(n + 1 - k) : SubSeq(s, k, n)[i] = s[k + i - 1]
  <1>1. \A i \in k..n : s[i] \in Nat
    OBVIOUS
  <1>2. k \in Int /\ n \in Int /\ k <= n /\ n - k + 1 = n + 1 - k
    OBVIOUS
  <1> QED
    BY <1>1, <1>2, SubSeqProperties

\* A conversation that is cut again when a turn is added is left with what
\* cutting the whole of it would leave.
LEMMA KeptAgain ==
    ASSUME NEW T, NEW s \in Seq(Nat), \A i \in DOMAIN s : T[s[i]].before \in Nat,
           NEW t \in Nat, NEW e1 \in Nat, NEW e2 \in Nat, e1 <= e2,
           NEW p \in KeptOf(T, s, e1), NEW w \in KeptOf(T, Append(p, t), e2)
    PROVE  w \in KeptOf(T, Append(s, t), e2)
  <1>1. PICK n \in Nat : n = Len(s)
    OBVIOUS
  <1>2. PICK k \in 1..n : /\ p = SubSeq(s, k, n)
                          /\ \A j \in 1..(k - 1) : ~(e1 - T[s[j]].before <= Room)
    BY <1>1 DEF KeptOf
  <1>3. PICK m \in Nat : m = n - k + 1
    BY <1>2
  <1>4. p \in Seq(Nat) /\ Len(p) = m /\ \A i \in 1..m : p[i] = s[k + i - 1]
    <2>1. /\ SubSeq(s, k, n) \in Seq(Nat)
          /\ Len(SubSeq(s, k, n)) = n + 1 - k
          /\ \A i \in 1..(n + 1 - k) : SubSeq(s, k, n)[i] = s[k + i - 1]
      BY <1>1, Ending
    <2> QED
      BY <1>2, <1>3, <2>1
  <1> DEFINE a == Append(p, t)
             b == Append(s, t)
  <1>5. /\ a \in Seq(Nat) /\ Len(a) = m + 1 /\ a[m + 1] = t
        /\ \A i \in 1..m : a[i] = s[k + i - 1]
    BY <1>4
  <1>6. /\ b \in Seq(Nat) /\ Len(b) = n + 1 /\ b[n + 1] = t
        /\ \A i \in 1..n : b[i] = s[i]
    BY <1>1
  <1> HIDE DEF a, b
  <1>7. PICK l \in 1..(m + 1) :
            /\ w = SubSeq(a, l, m + 1)
            /\ l < m + 1 => e2 - T[a[l]].before <= Room
            /\ \A j \in 1..(l - 1) : ~(e2 - T[a[j]].before <= Room)
    BY <1>5 DEF KeptOf, a
  <1>8. PICK q \in 1..(n + 1) : q = k + l - 1
    BY <1>2, <1>3, <1>7
  <1>9. ASSUME NEW i \in 1..(m + 1) PROVE a[i] = b[k + i - 1]
    <2>1. CASE i = m + 1
      BY <1>3, <1>5, <1>6, <2>1
    <2>2. CASE i # m + 1
      <3>1. i \in 1..m /\ k + i - 1 \in 1..n
        BY <1>2, <1>3, <1>9, <2>2
      <3> QED
        BY <1>5, <1>6, <3>1
    <2> QED
      BY <2>1, <2>2
  <1>10. w = SubSeq(b, q, n + 1)
    <2>1. /\ w \in Seq(Nat) /\ Len(w) = m + 2 - l
          /\ \A i \in 1..(m + 2 - l) : w[i] = a[l + i - 1]
      <3>1. PICK e \in Nat : e = m + 1
        OBVIOUS
      <3>2. a \in Seq(Nat) /\ e = Len(a) /\ l \in 1..e
        BY <1>5, <3>1
      <3>3. /\ SubSeq(a, l, e) \in Seq(Nat)
            /\ Len(SubSeq(a, l, e)) = e + 1 - l
            /\ \A i \in 1..(e + 1 - l) : SubSeq(a, l, e)[i] = a[l + i - 1]
        BY <3>2, Ending
      <3>4. w = SubSeq(a, l, e) /\ e + 1 - l = m + 2 - l
        BY <1>7, <3>1
      <3> QED
        BY <3>3, <3>4
    <2>2. /\ SubSeq(b, q, n + 1) \in Seq(Nat)
          /\ Len(SubSeq(b, q, n + 1)) = n + 2 - q
          /\ \A i \in 1..(n + 2 - q) : SubSeq(b, q, n + 1)[i] = b[q + i - 1]
      <3>1. PICK e \in Nat : e = n + 1
        OBVIOUS
      <3>2. b \in Seq(Nat) /\ e = Len(b) /\ q \in 1..e
        BY <1>6, <3>1
      <3>3. /\ SubSeq(b, q, e) \in Seq(Nat)
            /\ Len(SubSeq(b, q, e)) = e + 1 - q
            /\ \A i \in 1..(e + 1 - q) : SubSeq(b, q, e)[i] = b[q + i - 1]
        BY <3>2, Ending
      <3>4. e + 1 - q = n + 2 - q
        BY <3>1
      <3> QED
        BY <3>1, <3>3, <3>4
    <2>3. n + 2 - q = m + 2 - l
      BY <1>2, <1>3, <1>7, <1>8
    <2>4. ASSUME NEW i \in 1..(m + 2 - l)
          PROVE  a[l + i - 1] = b[q + i - 1]
      <3>1. PICK h \in 1..(m + 1) : h = l + i - 1
        BY <1>7, <2>4
      <3>2. k + h - 1 = q + i - 1
        BY <1>2, <1>3, <1>7, <1>8, <2>4, <3>1
      <3> QED
        BY <1>9, <3>1, <3>2
    <2>5. PICK v : v = SubSeq(b, q, n + 1)
      OBVIOUS
    <2>6. v \in Seq(Nat) /\ Len(v) = m + 2 - l
          /\ \A i \in 1..(m + 2 - l) : v[i] = w[i]
      BY <2>1, <2>2, <2>3, <2>4, <2>5
    <2>7. v = w
      BY <2>1, <2>6, SeqEqual
    <2> QED
      BY <2>5, <2>7
  <1>11. q < n + 1 => e2 - T[b[q]].before <= Room
    <2>1. b[q] = a[l] /\ (q < n + 1 <=> l < m + 1)
      BY <1>2, <1>3, <1>7, <1>8, <1>9
    <2> QED
      BY <1>7, <2>1
  <1>12. ASSUME NEW j \in 1..(q - 1) PROVE ~(e2 - T[b[j]].before <= Room)
    <2>1. CASE j < k
      <3>1. j \in 1..(k - 1) /\ j \in 1..n
        BY <1>2, <1>12, <2>1
      <3>2. ~(e1 - T[s[j]].before <= Room) /\ b[j] = s[j]
        BY <1>2, <1>6, <3>1
      <3>3. T[s[j]].before \in Nat
        BY <1>1, <3>1
      <3> QED
        BY <3>2, <3>3, ChatAssumption
    <2>2. CASE ~(j < k)
      <3>1. PICK i \in 1..(l - 1) : i = j - k + 1
        BY <1>2, <1>7, <1>8, <1>12, <2>2
      <3>2. i \in 1..(m + 1) /\ k + i - 1 = j
        BY <1>2, <1>7, <1>12, <3>1
      <3>3. a[i] = b[j]
        BY <1>9, <3>2
      <3> QED
        BY <1>7, <3>1, <3>3
    <2> QED
      BY <2>1, <2>2
  <1>13. w = SubSeq(b, q, Len(b)) /\ q \in 1..Len(b)
         /\ (q < Len(b) => e2 - T[b[q]].before <= Room)
    BY <1>6, <1>8, <1>10, <1>11
  <1>14. w \in KeptOf(T, b, e2)
    BY <1>12, <1>13 DEF KeptOf
  <1> QED
    BY <1>14 DEF b

\* What a turn remembers of earlier ones stays as it is.
LEMMA StillRemembers ==
    ASSUME NEW T, NEW U, NEW t, NEW s \in Seq(Nat),
           \A i \in 1..Len(s) : i # Len(s) => U[s[i]].before = T[s[i]].before,
           U[t].transcript = T[t].transcript, U[t].before = T[t].before,
           U[t].message = T[t].message, Remembers(T, t, s)
    PROVE  Remembers(U, t, s)
  <1>1. PICK e : e = T[t].before + T[t].message
    OBVIOUS
  <1>2. KeptOf(U, s, e) = KeptOf(T, s, e)
    BY KeptSame
  <1> QED
    BY <1>1, <1>2 DEF Remembers

\* What a step does to the turns: nothing, one more that is pending, or one
\* that was live moves on.
Unmoved == turns' = turns
Grown(t) ==
    /\ t = Len(turns) + 1
    /\ Len(turns') = t
    /\ turns'[t].bot = bot /\ turns'[t].status = "pending"
    /\ turns'[t].before = IF shown = <<>> THEN 0 ELSE Whole(Last(shown))
    /\ turns'[t].transcript
           \in KeptOf(turns, Append(Prior, t),
                      turns'[t].before + turns'[t].message)
    /\ \A x \in Turn : turns'[x] = turns[x]
Moved(t) ==
    /\ t \in Turn /\ turns[t].status \in Live
    /\ Len(turns') = Len(turns)
    /\ \A x \in Turn \ {t} : turns'[x] = turns[x]
    /\ turns'[t] = [turns[t] EXCEPT !.status = turns'[t].status]
    /\ turns'[t].bot = turns[t].bot
    /\ turns'[t].transcript = turns[t].transcript
    /\ turns'[t].before = turns[t].before
    /\ turns'[t].message = turns[t].message

LEMMA SayGrows ==
    ASSUME ChatTyped, Say
    PROVE  Grown(Len(turns) + 1) /\ turns' \in Seq(TurnType)
  <1> DEFINE t == Len(turns) + 1
             before == IF shown = <<>> THEN 0 ELSE Whole(Last(shown))
  <1>1. turns \in Seq(TurnType) /\ Len(turns) \in Nat /\ before \in Nat
    BY LastIsTurn DEF ChatTyped
  <1>2. PICK message \in Sizes, answer \in Sizes :
            \E w \in KeptOf(turns, Append(Prior, t), before + message) :
                turns' = Append(turns,
                             [bot |-> bot, status |-> "pending",
                              transcript |-> w, before |-> before,
                              message |-> message, answer |-> answer])
    BY KeptIsOf DEF Say
  <1>3. PICK w \in KeptOf(turns, Append(Prior, t), before + message) :
            turns' = Append(turns,
                         [bot |-> bot, status |-> "pending",
                          transcript |-> w, before |-> before,
                          message |-> message, answer |-> answer])
    BY <1>2
  <1> DEFINE r == [bot |-> bot, status |-> "pending", transcript |-> w,
                   before |-> before, message |-> message, answer |-> answer]
  <1>4. r \in TurnType
    <2>1. Append(Prior, t) \in Seq(Nat)
      BY <1>1, PriorType
    <2>2. w \in Seq(Nat)
      BY <2>1, KeptType
    <2> HIDE DEF before
    <2> QED
      BY <1>1, <2>2 DEF ChatTyped, TurnType, Statuses, Live
  <1>5. /\ r.bot = bot /\ r.status = "pending" /\ r.before = before
        /\ r.transcript \in KeptOf(turns, Append(Prior, t), r.before + r.message)
    OBVIOUS
  <1> HIDE DEF r, before
  <1>6. turns' = Append(turns, r)
    BY <1>3 DEF r
  <1>7. /\ turns' \in Seq(TurnType) /\ Len(turns') = t
        /\ turns'[t] = r /\ \A x \in Turn : turns'[x] = turns[x]
    BY <1>1, <1>4, <1>6 DEF Turn
  <1> QED
    BY <1>5, <1>7 DEF Grown, before

LEMMA RunMovesMoves ==
    ASSUME ChatTyped, NEW t \in Turn, RunMoves(t)
    PROVE  Moved(t) /\ turns' \in Seq(TurnType)
  <1>1. turns \in Seq(TurnType) /\ Len(turns) \in Nat
    BY DEF ChatTyped
  <1>2. PICK next \in {"running", "awaiting_approval", "completed", "error",
                       "cancelled"} : turns' = [turns EXCEPT ![t].status = next]
    BY DEF RunMoves
  <1>3. next \in Statuses
    BY DEF Statuses, Live
  <1>4. turns[t] \in TurnType
    BY <1>1 DEF Turn
  <1>5. [turns[t] EXCEPT !.status = next] \in TurnType
    BY <1>3, <1>4 DEF TurnType
  <1>6. /\ turns' \in Seq(TurnType) /\ Len(turns') = Len(turns)
        /\ turns'[t] = [turns[t] EXCEPT !.status = next]
        /\ \A x \in Turn \ {t} : turns'[x] = turns[x]
    BY <1>1, <1>2, <1>5 DEF Turn
  <1>7. turns[t].status \in Live
    BY DEF RunMoves
  <1> QED
    BY <1>4, <1>6, <1>7 DEF Moved, TurnType

LEMMA TurnsStep ==
    ASSUME ChatTyped, [ChatNext]_chatVars
    PROVE  Unmoved \/ (\E t : Grown(t)) \/ (\E t : Moved(t))
  <1>1. CASE Say
    BY <1>1, SayGrows
  <1>2. ASSUME NEW t \in Turn, RunMoves(t) PROVE Moved(t)
    BY <1>2, RunMovesMoves
  <1> QED
    BY <1>1, <1>2
    DEF ChatNext, chatVars, Unmoved, OpenBot, Loaded, Completes, Fails, GivesUp

\* An answer stays one.
LEMMA AnswersStay ==
    ASSUME ChatTyped, [ChatNext]_chatVars, NEW x \in Turn
    PROVE  /\ x \in Turn' /\ turns[x].bot = turns'[x].bot
           /\ turns[x].status = "completed" => turns'[x].status = "completed"
           /\ turns'[x].transcript = turns[x].transcript
           /\ turns'[x].before = turns[x].before
           /\ turns'[x].message = turns[x].message
  <1>1. Len(turns) \in Nat
    BY DEF ChatTyped
  <1>2. CASE Unmoved
    BY <1>2 DEF Unmoved, Turn
  <1>3. ASSUME NEW t, Grown(t)
        PROVE  x \in Turn' /\ turns'[x] = turns[x]
    BY <1>1, <1>3 DEF Grown, Turn
  <1>4. ASSUME NEW t, Moved(t)
        PROVE  /\ x \in Turn' /\ turns[x].bot = turns'[x].bot
               /\ turns'[x].transcript = turns[x].transcript
               /\ turns'[x].before = turns[x].before
               /\ turns'[x].message = turns[x].message
               /\ turns[x].status = "completed" =>
                      turns'[x].status = "completed"
    BY <1>1, <1>4 DEF Moved, Turn, Live
  <1> QED
    BY <1>2, <1>3, <1>4, TurnsStep

LEMMA AnsweredSame ==
    ASSUME ChatTyped, NEW b, NEW t, Grown(t)
    PROVE  AnsweredTurns(b)' = AnsweredTurns(b)
  BY DEF ChatTyped, Grown, AnsweredTurns, Turn

LEMMA AnsweredMore ==
    ASSUME ChatTyped, NEW b, NEW t, Moved(t)
    PROVE  AnsweredTurns(b)' = IF turns'[t].status = "completed" /\ b = turns[t].bot
                          THEN AnsweredTurns(b) \cup {t} ELSE AnsweredTurns(b)
  <1>1. Turn' = Turn /\ t \in Turn
    BY DEF Moved, Turn
  <1>2. t \notin AnsweredTurns(b)
    BY DEF Moved, AnsweredTurns, Live
  <1>3. \A x \in Turn \ {t} : x \in AnsweredTurns(b)' <=> x \in AnsweredTurns(b)
    BY <1>1 DEF Moved, AnsweredTurns
  <1>4. t \in AnsweredTurns(b)' <=> turns'[t].status = "completed" /\ b = turns[t].bot
    BY <1>1 DEF Moved, AnsweredTurns
  <1>5. AnsweredTurns(b) \subseteq Turn /\ AnsweredTurns(b)' \subseteq Turn
    BY <1>1 DEF AnsweredTurns
  <1> QED
    BY <1>1, <1>2, <1>3, <1>4, <1>5

LEMMA ChatTypedStep ==
    ASSUME ChatTyped, LoadsAreAnswers, [ChatNext]_chatVars
    PROVE  ChatTyped'
  <1>1. CASE UNCHANGED chatVars
    BY <1>1 DEF ChatTyped, chatVars, Turn
  <1>2. ASSUME NEW b \in Bots, OpenBot(b) PROVE ChatTyped'
    <2>1. [bot |-> b, found |-> Completed(b)] \in [bot: Bots, found: Seq(Nat)]
      BY CompletedFacts
    <2> QED
      BY <1>2, <2>1 DEF OpenBot, Load, ChatTyped, Turn
  <1>3. ASSUME NEW l \in loads, Loaded(l) PROVE ChatTyped'
    <2>1. l.found \in Seq(Nat) /\ \A i \in DOMAIN l.found : l.found[i] \in Turn
      BY DEF ChatTyped, LoadsAreAnswers
    <2> QED
      BY <1>3, <2>1 DEF Loaded, ChatTyped, Turn
  <1>4. CASE Say
    <2>1. turns' \in Seq(TurnType) /\ Len(turns') = Len(turns) + 1
      BY <1>4, SayGrows DEF Grown
    <2>2. Turn \subseteq Turn' /\ Len(turns) + 1 \in Turn'
      BY <2>1 DEF ChatTyped, Turn
    <2> QED
      BY <1>4, <2>1, <2>2 DEF Say, ChatTyped
  <1>5. ASSUME NEW t \in Turn, RunMoves(t) PROVE ChatTyped'
    <2>1. turns' \in Seq(TurnType) /\ Turn' = Turn
      BY <1>5, RunMovesMoves DEF Moved, Turn
    <2> QED
      BY <1>5, <2>1 DEF RunMoves, ChatTyped
  <1>6. ASSUME NEW t \in Turn, Completes(t) PROVE ChatTyped'
    <2>1. t \in Nat /\ shown' = Append(shown, t) /\ shown \in Seq(Nat)
      BY <1>6 DEF Completes, Turn, ChatTyped
    <2>2. shown' \in Seq(Nat) /\ \A i \in DOMAIN shown' : shown'[i] \in Turn
      BY <2>1 DEF ChatTyped
    <2> QED
      BY <1>6, <2>2 DEF Completes, ChatTyped, Turn
  <1>7. ASSUME NEW t \in Turn, Fails(t) \/ GivesUp(t) PROVE ChatTyped'
    BY <1>7 DEF Fails, GivesUp, ChatTyped, Turn
  <1> QED
    BY <1>1, <1>2, <1>3, <1>4, <1>5, <1>6, <1>7 DEF ChatNext

LEMMA AnswersStep ==
    ASSUME ChatTyped, OnlyAnswersShown, LoadsAreAnswers, [ChatNext]_chatVars
    PROVE  OnlyAnswersShown' /\ LoadsAreAnswers'
  <1> DEFINE Good(s) == \A i \in DOMAIN s : s[i] \in Turn
                                          /\ turns[s[i]].status = "completed"
  <1>1. Good(shown) /\ \A l \in loads : Good(l.found)
    BY DEF ChatTyped, OnlyAnswersShown, LoadsAreAnswers
  <1>2. \A b : Good(Completed(b))
    BY CompletedFacts DEF AnsweredTurns
  <1>3. ASSUME NEW s, Good(s)
        PROVE  \A i \in DOMAIN s : s[i] \in Turn'
                                   /\ turns'[s[i]].status = "completed"
    BY <1>3, AnswersStay
  <1>4. \A t \in Turn : turns[t].status = "completed" => Good(Append(shown, t))
    BY <1>1 DEF ChatTyped
  <1>5. Good(shown')
    <2> HIDE DEF Good
    <2>1. ASSUME NEW t \in Turn, Completes(t) PROVE Good(shown')
      BY <1>4, <2>1 DEF Completes
    <2> QED
      BY <1>1, <2>1
      DEF ChatNext, chatVars, OpenBot, Loaded, Say, RunMoves, Fails, GivesUp
  <1>6. \A l \in loads' : Good(l.found)
    <2> HIDE DEF Good
    <2> QED
      BY <1>1, <1>2 DEF ChatNext, chatVars, OpenBot, Load, Loaded, Say, RunMoves,
         Completes, Fails, GivesUp
  <1>7. OnlyAnswersShown'
    BY <1>3, <1>5 DEF OnlyAnswersShown
  <1>8. LoadsAreAnswers'
    BY <1>3, <1>6 DEF LoadsAreAnswers
  <1> QED
    BY <1>7, <1>8

Undisturbed == NothingElse /\ ShownIsAll /\ LastRemembers /\ NothingForgotten

\* The last of the answered turns remembers them; so the conversation on
\* screen is remembered when it is all of them.
Recalled ==
    /\ \A i \in DOMAIN shown : turns[shown[i]].bot = bot
    /\ shown # <<>> => Remembers(turns, Last(shown), shown)

LEMMA RecalledIsRemembered == Recalled => NothingForgotten
  BY KeptIsOf DEF Recalled, NothingForgotten, Remembers, Upto

AllShown == shown = Completed(bot)

LEMMA AllIsRemembered ==
    ChatTyped /\ LastRemembers /\ AllShown => NothingForgotten
  <1> SUFFICES ASSUME ChatTyped, LastRemembers, shown = Completed(bot)
               PROVE  Recalled
    BY RecalledIsRemembered DEF AllShown
  <1>1. \A i \in DOMAIN shown : turns[shown[i]].bot = bot
    BY CompletedFacts DEF AnsweredTurns
  <1>2. shown # <<>> => Remembers(turns, Last(shown), shown)
    BY DEF ChatTyped, LastRemembers
  <1> QED
    BY <1>1, <1>2 DEF Recalled

\* What the answered turns of a graph remember does not change by a step that
\* leaves them the answered ones.
LEMMA AnswersRemember ==
    ASSUME ChatTyped, LastRemembers, NEW c \in Bots, Completed(c) # <<>>,
           [ChatNext]_chatVars
    PROVE  Remembers(turns', Last(Completed(c)), Completed(c))
  <1>1. /\ Completed(c) \in Seq(Nat)
        /\ \A i \in DOMAIN Completed(c) : Completed(c)[i] \in Turn
    BY CompletedFacts DEF AnsweredTurns
  <1>2. PICK s \in Seq(Nat) : s = Completed(c)
    BY <1>1
  <1>3. \A i \in 1..Len(s) : s[i] \in Turn
    BY <1>1, <1>2
  <1>4. Last(s) \in Turn
    <2>1. Len(s) \in 1..Len(s)
      BY <1>2
    <2> QED
      BY <1>3, <2>1 DEF Last
  <1>5. Remembers(turns, Last(s), s)
    BY <1>2 DEF LastRemembers
  <1>6. \A i \in 1..Len(s) : turns'[s[i]].before = turns[s[i]].before
    BY <1>3, AnswersStay
  <1>7. /\ turns'[Last(s)].transcript = turns[Last(s)].transcript
        /\ turns'[Last(s)].before = turns[Last(s)].before
        /\ turns'[Last(s)].message = turns[Last(s)].message
    BY <1>4, AnswersStay
  <1>8. Remembers(turns', Last(s), s)
    BY <1>5, <1>6, <1>7, StillRemembers
  <1> QED
    BY <1>2, <1>8

LEMMA OpenBotStep ==
    ASSUME ChatTyped, Undisturbed, NEW b \in Bots, OpenBot(b), mixups' = {}
    PROVE  Undisturbed'
  <1>1. sends = {} /\ loads = {}
    BY DEF OpenBot
  <1>2. /\ turns' = turns /\ sends' = {} /\ bot' = b
        /\ loads' = {[bot |-> b, found |-> Completed(b)]}
    BY <1>1 DEF OpenBot, Load
  <1>3. \A c : Completed(c)' = Completed(c)
    BY <1>2 DEF Completed, AnsweredTurns, Turn
  <1>4. Completed(bot)' = Completed(b)
    BY <1>2 DEF Completed, AnsweredTurns, Turn
  <1>5. NothingElse'
    BY <1>1, <1>2, <1>4 DEF Undisturbed, NothingElse, Turn
  <1>6. ShownIsAll' /\ NothingForgotten'
    BY <1>2 DEF ShownIsAll, NothingForgotten
  <1>7. LastRemembers'
    <2>1. \A c \in Bots : Completed(c) # <<>> =>
              Remembers(turns', Last(Completed(c)), Completed(c))
      BY <1>2 DEF Undisturbed, LastRemembers
    <2> QED
      BY <1>3, <2>1 DEF LastRemembers, Last
  <1> QED
    BY <1>5, <1>6, <1>7 DEF Undisturbed

LEMMA LoadedStep ==
    ASSUME ChatTyped, ChatTyped', Undisturbed, NEW l \in loads, Loaded(l),
           mixups' = {}
    PROVE  Undisturbed'
  <1>1. sends = {} /\ l.found = Completed(bot)
    BY DEF Undisturbed, NothingElse
  <1>2. /\ turns' = turns /\ sends' = {} /\ bot' = bot
        /\ loads' = loads \ {l} /\ shown' = Completed(bot)
    BY <1>1 DEF Loaded
  <1>3. (\A c : Completed(c)' = Completed(c)) /\ Completed(bot)' = Completed(bot)
    BY <1>2 DEF Completed, AnsweredTurns, Turn
  <1>4. NothingElse'
    BY <1>2, <1>3 DEF Undisturbed, NothingElse, Turn
  <1>5. ShownIsAll'
    BY <1>2, <1>3 DEF ShownIsAll
  <1>6. LastRemembers'
    <2>1. \A c \in Bots : Completed(c) # <<>> =>
              Remembers(turns', Last(Completed(c)), Completed(c))
      BY <1>2 DEF Undisturbed, LastRemembers
    <2> QED
      BY <1>3, <2>1 DEF LastRemembers, Last
  <1>7. NothingForgotten'
    <2>1. AllShown'
      BY <1>2, <1>3 DEF AllShown
    <2> QED
      BY <1>6, <2>1, AllIsRemembered, PTL
  <1> QED
    BY <1>4, <1>5, <1>6, <1>7 DEF Undisturbed

LEMMA SayStep ==
    ASSUME ChatTyped, ChatTyped', OnlyAnswersShown, Undisturbed, Say, mixups' = {}
    PROVE  Undisturbed'
  <1> DEFINE t == Len(turns) + 1
  <1>1. sends = {} /\ loads = {} /\ shown = Completed(bot)
    BY DEF Say, Undisturbed, ShownIsAll
  <1>2. Grown(t)
    BY SayGrows
  <1>3. /\ bot' = bot /\ shown' = shown /\ loads' = {} /\ sends' = {t}
    BY <1>1 DEF Say
  <1>4. /\ Len(turns) \in Nat /\ Len(turns') = t /\ Turn' = Turn \cup {t}
        /\ turns'[t].bot = bot /\ turns'[t].status = "pending"
        /\ \A x \in Turn : turns'[x] = turns[x]
    <2>1. Len(turns) \in Nat
      BY DEF ChatTyped
    <2> HIDE DEF t
    <2>2. /\ Len(turns') = t /\ turns'[t].bot = bot
          /\ turns'[t].status = "pending"
          /\ \A x \in Turn : turns'[x] = turns[x]
      BY <1>2 DEF Grown
    <2>3. Turn' = Turn \cup {t}
      BY <2>1, <2>2 DEF Turn, t
    <2> QED
      BY <2>1, <2>2, <2>3
  <1>5. (\A c : Completed(c)' = Completed(c)) /\ Completed(bot)' = Completed(bot)
    BY <1>2, <1>3, AnsweredSame DEF Completed
  <1>6. Remembers(turns', t, Append(shown, t))
    <2> DEFINE end == turns'[t].before + turns'[t].message
               w == turns'[t].transcript
    <2>1. w \in KeptOf(turns, Append(Prior, t), end)
      BY <1>2 DEF Grown
    <2>2. shown \in Seq(Nat) /\ \A i \in DOMAIN shown : shown[i] \in Turn
      BY DEF ChatTyped
    <2>3. \A i \in DOMAIN shown : turns[shown[i]].before \in Nat
      <3>1. \A x \in Turn : turns[x] \in TurnType
        BY DEF ChatTyped, Turn
      <3> QED
        BY <2>2, <3>1 DEF TurnType
    <2>4. turns'[t].before \in Nat /\ turns'[t].message \in Nat
      <3>1. turns'[t] \in TurnType
        BY <1>2, <1>4 DEF ChatTyped, Grown
      <3> QED
        BY <3>1, ChatAssumption DEF TurnType
    <2>5. w \in KeptOf(turns, Append(shown, t), end)
      <3>1. CASE shown = <<>>
        BY <2>1, <3>1 DEF Prior
      <3>2. CASE shown # <<>>
        <4> DEFINE e1 == Upto(Last(shown))
        <4>1. Prior \in KeptOf(turns, shown, e1)
          BY <1>1, <3>2, KeptIsOf DEF Say, Undisturbed, NothingForgotten, Prior
        <4>2. e1 \in Nat /\ e1 <= end /\ end \in Nat
          <5>1. turns'[t].before = Whole(Last(shown))
            BY <1>2, <3>2 DEF Grown
          <5> QED
            BY <2>4, <3>2, <5>1, LastIsTurn
        <4>3. t \in Nat
          BY <1>4
        <4> HIDE DEF end, w, e1, t
        <4> QED
          BY <2>1, <2>2, <2>3, <4>1, <4>2, <4>3, KeptAgain
      <3> QED
        BY <3>1, <3>2
    <2>6. KeptOf(turns', Append(shown, t), end)
              = KeptOf(turns, Append(shown, t), end)
      <3>1. t \in Nat
        BY <1>4
      <3> HIDE DEF end, t
      <3>2. Append(shown, t) \in Seq(Nat)
        BY <2>2, <3>1
      <3>3. PICK s \in Seq(Nat) : s = Append(shown, t)
        BY <3>2
      <3>4. \A i \in 1..Len(s) : i # Len(s) =>
                turns'[s[i]].before = turns[s[i]].before
        BY <1>4, <2>2, <3>3
      <3>5. \A e : KeptOf(turns', s, e) = KeptOf(turns, s, e)
        BY <3>4, KeptSame
      <3> QED
        BY <3>3, <3>5
    <2> QED
      BY <2>5, <2>6 DEF Remembers
  <1> HIDE DEF t
  <1>7. NothingElse'
    BY <1>1, <1>3, <1>4, <1>5 DEF Undisturbed, NothingElse
  <1>8. ShownIsAll'
    BY <1>1, <1>3, <1>4, <1>5, <1>6 DEF ShownIsAll
  <1>9. LastRemembers'
    <2>1. \A c \in Bots : Completed(c) # <<>> =>
              Remembers(turns', Last(Completed(c)), Completed(c))
      BY AnswersRemember DEF Undisturbed, ChatNext
    <2> QED
      BY <1>5, <2>1 DEF LastRemembers, Last
  <1>10. NothingForgotten'
    <2>1. AllShown'
      BY <1>1, <1>3, <1>5 DEF AllShown
    <2> QED
      BY <1>9, <2>1, AllIsRemembered, PTL
  <1> QED
    BY <1>7, <1>8, <1>9, <1>10 DEF Undisturbed

LEMMA RunMovesStep ==
    ASSUME ChatTyped, ChatTyped', OnlyAnswersShown, Undisturbed, mixups = {},
           NEW t \in Turn, RunMoves(t)
    PROVE  Undisturbed'
  <1>1. Moved(t)
    BY RunMovesMoves
  <1>2. /\ bot' = bot /\ shown' = shown /\ loads' = loads /\ sends' = sends
        /\ mixups' = mixups
    BY DEF RunMoves
  <1>3. t \in sends /\ t = Len(turns) /\ loads = {} /\ sends = {t}
    BY <1>1 DEF Moved, Undisturbed, NothingElse, Live
  <1>4. /\ Len(turns) \in Nat /\ Turn' = Turn /\ turns'[t].bot = turns[t].bot
        /\ Len(turns') = Len(turns)
        /\ turns'[t].transcript = turns[t].transcript
        /\ turns'[t].before = turns[t].before
        /\ turns'[t].message = turns[t].message
        /\ turns[t].status \in Live
        /\ \A x \in Turn \ {t} : turns'[x] = turns[x]
    <2>1. Len(turns) \in Nat
      BY DEF ChatTyped
    <2>2. Turn' = Turn
      BY <1>1 DEF Moved, Turn
    <2> QED
      BY <1>1, <2>1, <2>2 DEF Moved
  <1>5. /\ turns[t].bot = bot /\ Remembers(turns, t, Append(shown, t))
        /\ Completed(bot) = shown
    BY <1>3, <1>4 DEF Undisturbed, ShownIsAll, Live
  <1>6. Remembers(turns', t, Append(shown, t))
    <2>1. PICK s \in Seq(Nat) : s = Append(shown, t)
      <3>1. shown \in Seq(Nat) /\ t \in Nat
        BY <1>4 DEF ChatTyped, Turn
      <3>2. Append(shown, t) \in Seq(Nat)
        BY <3>1
      <3> QED
        BY <3>2
    <2>2. \A i \in 1..Len(s) : i # Len(s) =>
              turns'[s[i]].before = turns[s[i]].before
      <3>1. shown \in Seq(Nat) /\ \A i \in DOMAIN shown : shown[i] \in Turn
        BY DEF ChatTyped
      <3> QED
        BY <1>4, <2>1, <3>1
    <2> QED
      BY <1>4, <1>5, <2>1, <2>2, StillRemembers
  <1>7. \A c : Completed(c)' = IF turns'[t].status = "completed" /\ c = bot
                               THEN Append(shown, t) ELSE Completed(c)
    <2> SUFFICES ASSUME NEW c
                 PROVE  Completed(c)' =
                            IF turns'[t].status = "completed" /\ c = bot
                            THEN Append(shown, t) ELSE Completed(c)
      OBVIOUS
    <2>1. CASE turns'[t].status = "completed" /\ c = bot
      <3>1. AnsweredTurns(c)' = AnsweredTurns(c) \cup {t}
        BY <1>1, <1>5, <2>1, AnsweredMore
      <3>2. AnsweredTurns(c) \in SUBSET (1..t - 1) /\ t - 1 \in Nat /\ t \in Nat
        <4>1. t \in 1..t /\ t \in Nat /\ Turn = 1..t
          BY <1>3, <1>4 DEF Turn
        <4>2. AnsweredTurns(c) \subseteq 1..t /\ t \notin AnsweredTurns(c)
          BY <1>4, <4>1 DEF AnsweredTurns, Live
        <4>3. 1..t = (1..t - 1) \cup {t}
          BY <4>1
        <4> QED
          BY <4>1, <4>2, <4>3
      <3>3. InOrder(AnsweredTurns(c) \cup {t}) = Append(InOrder(AnsweredTurns(c)), t)
        <4>1. PICK n \in Nat : n = t - 1
          BY <3>2
        <4>2. t > n /\ AnsweredTurns(c) \in SUBSET (1..n)
          BY <3>2, <4>1
        <4> QED
          BY <3>2, <4>2, InOrderAppend
      <3> QED
        BY <1>5, <2>1, <3>1, <3>3 DEF Completed
    <2>2. CASE ~(turns'[t].status = "completed" /\ c = bot)
      <3>1. AnsweredTurns(c)' = AnsweredTurns(c)
        BY <1>1, <1>5, <2>2, AnsweredMore
      <3> QED
        BY <2>2, <3>1 DEF Completed
    <2> QED
      BY <2>1, <2>2
  <1>8. Completed(bot)' = IF turns'[t].status = "completed"
                          THEN Append(shown, t) ELSE shown
    <2>1. Completed(bot)' = InOrder(AnsweredTurns(bot)')
      BY DEF Completed
    <2>2. \A c : c = bot => AnsweredTurns(bot)' = AnsweredTurns(c)'
      BY <1>2 DEF AnsweredTurns
    <2> QED
      BY <1>5, <1>7, <2>1, <2>2 DEF Completed
  <1>9. NothingElse'
    BY <1>2, <1>3, <1>4 DEF Undisturbed, NothingElse
  <1>10. ShownIsAll'
    BY <1>2, <1>3, <1>4, <1>5, <1>8, <1>6 DEF ShownIsAll
  <1>11. LastRemembers'
    <2> SUFFICES ASSUME NEW c \in Bots, Completed(c)' # <<>>
                 PROVE  Remembers(turns', Last(Completed(c)'), Completed(c)')
      BY DEF LastRemembers, Last
    <2>1. CASE Completed(c)' = Append(shown, t)
      <3>1. Last(Append(shown, t)) = t
        BY DEF ChatTyped, Last
      <3> QED
        BY <1>6, <2>1, <3>1
    <2>2. CASE Completed(c)' = Completed(c)
      BY <2>2, AnswersRemember DEF Undisturbed, ChatNext
    <2> QED
      BY <1>7, <2>1, <2>2
  <1>12. NothingForgotten'
    <2>1. \A i \in DOMAIN shown : turns'[shown[i]].bot = bot
      <3>1. \A i \in DOMAIN shown : shown[i] \in AnsweredTurns(bot)
        BY <1>5, CompletedFacts
      <3> QED
        BY <3>1, AnswersStay DEF AnsweredTurns, ChatNext
    <2>2. shown # <<>> => Remembers(turns', Last(shown), shown)
      BY <1>5, AnswersRemember DEF Undisturbed, ChatNext, ChatTyped
    <2>3. Recalled'
      BY <1>2, <2>1, <2>2 DEF Recalled, Last
    <2> QED
      BY <2>3, RecalledIsRemembered, PTL
  <1> QED
    BY <1>9, <1>10, <1>11, <1>12 DEF Undisturbed

LEMMA SendEndsStep ==
    ASSUME ChatTyped, ChatTyped', Undisturbed, mixups = {},
           NEW t \in Turn, Completes(t) \/ Fails(t)
    PROVE  Undisturbed'
  <1>1. /\ bot' = bot /\ loads' = loads /\ turns' = turns
        /\ sends' = sends \ {t} /\ t \in sends
    BY DEF Completes, Fails
  <1>2. sends' = {} /\ loads' = {}
    BY <1>1 DEF Undisturbed, NothingElse
  <1>3. (\A c : Completed(c)' = Completed(c)) /\ Completed(bot)' = Completed(bot)
    BY <1>1 DEF Completed, AnsweredTurns, Turn
  <1>4. shown' = Completed(bot)'
    BY <1>1, <1>3 DEF Undisturbed, ShownIsAll, Completes, Fails
  <1>5. turns[t].status \in {"completed", "error"}
    BY DEF Completes, Fails
  <1>6. NothingElse'
    BY <1>1, <1>2, <1>5 DEF Undisturbed, NothingElse, Turn
  <1>7. ShownIsAll'
    BY <1>2, <1>4 DEF ShownIsAll
  <1>8. LastRemembers'
    <2>1. \A c \in Bots : Completed(c) # <<>> =>
              Remembers(turns', Last(Completed(c)), Completed(c))
      BY <1>1 DEF Undisturbed, LastRemembers
    <2> QED
      BY <1>3, <2>1 DEF LastRemembers, Last
  <1>9. NothingForgotten'
    <2>1. AllShown'
      BY <1>4 DEF AllShown
    <2> QED
      BY <1>8, <2>1, AllIsRemembered, PTL
  <1> QED
    BY <1>6, <1>7, <1>8, <1>9 DEF Undisturbed

\* The chat shows the answers of completed runs and nothing else, for any
\* graphs, messages and visits.
THEOREM AnswersAreAnswers == ChatSpec => []OnlyAnswersShown
  <1> DEFINE Inv == ChatTyped /\ OnlyAnswersShown /\ LoadsAreAnswers
  <1>1. ChatInit => Inv
    <2>1. <<>> \in Seq(Nat) /\ <<>> \in Seq(TurnType) /\ DOMAIN <<>> = {}
      OBVIOUS
    <2> QED
      BY <2>1 DEF ChatInit, ChatTyped, OnlyAnswersShown, LoadsAreAnswers, Turn,
                  TurnType
  <1>2. Inv /\ [ChatNext]_chatVars => Inv'
    BY ChatTypedStep, AnswersStep
  <1> QED
    BY <1>1, <1>2, PTL DEF ChatSpec

\* As long as nothing has mixed up the conversation the last run shown
\* remembers the latest turns of it, as many as there is room for, and nothing
\* of another graph, for any graphs, lengths, room, messages and visits: to
\* cut the transcript turn by turn forgets no more than to cut it once.
\* (buildNextInput, truncateTranscript)
THEOREM ConversationsHold == ChatSpec => []NothingForgotten
  <1> DEFINE Inv == /\ ChatTyped /\ OnlyAnswersShown /\ LoadsAreAnswers
                    /\ mixups = {} => Undisturbed
  <1>1. ChatInit => Inv
    <2>1. <<>> \in Seq(Nat) /\ <<>> \in Seq(TurnType) /\ DOMAIN <<>> = {}
      OBVIOUS
    <2>2. ChatInit => \A c : Completed(c) = <<>>
      <3>1. ChatInit => \A c : AnsweredTurns(c) = {}
        BY <2>1 DEF ChatInit, AnsweredTurns, Turn
      <3> QED
        BY <3>1, InOrderNone DEF Completed
    <2>3. ChatInit => ChatTyped /\ OnlyAnswersShown /\ LoadsAreAnswers
      BY <2>1 DEF ChatInit, ChatTyped, OnlyAnswersShown, LoadsAreAnswers, Turn,
                  TurnType
    <2>4. ChatInit => Undisturbed
      BY <2>1, <2>2 DEF ChatInit, Undisturbed, NothingElse, ShownIsAll,
                        LastRemembers, NothingForgotten, Turn
    <2> QED
      BY <2>3, <2>4
  <1>2. Inv /\ [ChatNext]_chatVars => Inv'
    <2> SUFFICES ASSUME Inv, [ChatNext]_chatVars PROVE Inv'
      OBVIOUS
    <2>1. ChatTyped' /\ OnlyAnswersShown' /\ LoadsAreAnswers'
      BY ChatTypedStep, AnswersStep
    <2>2. ASSUME mixups' = {} PROVE Undisturbed'
      <3>1. mixups = {}
        BY <2>2 DEF ChatNext, chatVars, OpenBot, Loaded, Say, RunMoves,
                    Completes, Fails, GivesUp
      <3>2. Undisturbed
        BY <3>1
      <3>3. CASE UNCHANGED chatVars
        BY <3>2, <3>3 DEF chatVars, Undisturbed, NothingElse, ShownIsAll,
            LastRemembers, NothingForgotten, Completed, AnsweredTurns, Turn,
            Kept, Fits, Upto, Last
      <3>4. ASSUME NEW b \in Bots, OpenBot(b) PROVE Undisturbed'
        BY <2>2, <3>2, <3>4, OpenBotStep
      <3>5. ASSUME NEW l \in loads, Loaded(l) PROVE Undisturbed'
        BY <2>1, <2>2, <3>2, <3>5, LoadedStep
      <3>6. CASE Say
        BY <2>1, <2>2, <3>2, <3>6, SayStep
      <3>7. ASSUME NEW t \in Turn, RunMoves(t) PROVE Undisturbed'
        BY <2>1, <3>1, <3>2, <3>7, RunMovesStep
      <3>8. ASSUME NEW t \in Turn, Completes(t) \/ Fails(t) PROVE Undisturbed'
        BY <2>1, <3>1, <3>2, <3>8, SendEndsStep
      <3>9. ASSUME NEW t \in Turn, GivesUp(t) PROVE FALSE
        BY <2>2, <3>9 DEF GivesUp
      <3> QED
        BY <3>3, <3>4, <3>5, <3>6, <3>7, <3>8, <3>9 DEF ChatNext
    <2> QED
      BY <2>1, <2>2
  <1>3. Inv => NothingForgotten
    BY DEF Undisturbed, NothingForgotten
  <1> QED
    BY <1>1, <1>2, <1>3, PTL DEF ChatSpec

=============================================================================
