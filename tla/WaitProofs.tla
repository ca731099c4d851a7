----------------------------- MODULE WaitProofs -----------------------------
(***************************************************************************)
(* Proofs about WaitThread, for any number of turns, and any page length.  *)
(* A turn that ended before the call, and is still in the page when the    *)
(* result is told, was in the page of every poll before: pages only lose   *)
(* turns.                                                                  *)
(***************************************************************************)
EXTENDS WaitThread, TLAPS

\* What was seen of the turn is, or was, true of it; and if it had ended before the
\* call and has not left the page since, its end was seen.
Exact(seen) ==
  /\ seen # None => Started(Target) /\ seen \in {Running, status[Target]}
  /\ settled /\ InPage(Target) => Terminal(seen)

IndInv ==
  /\ TypeOK
  /\ settled => Started(Target) /\ status[Target] \in Endings
  /\ pc = "new" => ~settled /\ ~polled
  /\ pc = "answered" => Exact(page)
  /\ IF polled THEN Exact(latest) ELSE latest = None
  /\ pc = "done" =>
       /\ told.timedOut = ~Terminal(told.turn)
       /\ IF polled THEN Exact(told.turn) ELSE told.turn = None

LEMMA InitInv == Init => IndInv
<1> SUFFICES ASSUME Init PROVE IndInv
  OBVIOUS
<1>1. << >> \in Seq(Turns) /\ None \in Seen
  BY DEF Seen
<1>2. TypeOK
  BY <1>1 DEF Init, TypeOK
<1> QED BY <1>2 DEF Init, IndInv

\* A turn that starts leaves the others where they are, or takes one from the page.
LEMMA StartTurnInv ==
  ASSUME IndInv, NEW t \in Turns, StartTurn(t)
  PROVE  IndInv'
<1>1. /\ order \in Seq(Turns) /\ order' = Append(order, t) /\ ~Started(t)
      /\ UNCHANGED <<status, pc, zero, page, latest, polled, settled, told>>
  BY DEF StartTurn, IndInv, TypeOK
<1>2. /\ Len(order') = Len(order) + 1 /\ Len(order) \in Nat /\ order'[Len(order) + 1] = t
      /\ \A i \in 1 .. Len(order) : order'[i] = order[i]
  BY <1>1
<1>3. Started(Target) => Started(Target)'
  BY <1>2 DEF Started
<1>4. Started(Target) /\ InPage(Target)' => InPage(Target)
  <2> SUFFICES ASSUME Started(Target), InPage(Target)' PROVE InPage(Target)
    OBVIOUS
  <2>1. PICK i \in 1 .. Len(order') : i > Len(order') - Recent /\ order'[i] = Target
    BY DEF InPage
  <2>2. Target # t
    BY <1>1
  <2>3. i \in 1 .. Len(order) /\ i > Len(order) - Recent /\ order[i] = Target
    BY <1>2, <2>1, <2>2, WaitAssumption
  <2> QED BY <2>3 DEF InPage
<1>5. \A seen : Exact(seen) /\ (settled => Started(Target)) => Exact(seen)'
  BY <1>1, <1>3, <1>4 DEF Exact, Terminal
<1>6. TypeOK'
  BY <1>1 DEF IndInv, TypeOK
<1> QED BY <1>1, <1>3, <1>5, <1>6 DEF IndInv, Terminal

\* A turn ends once: what was seen of it was that it ran, or how it ended.
LEMMA EndTurnInv ==
  ASSUME IndInv, NEW t \in Turns, NEW how \in Endings, EndTurn(t, how)
  PROVE  IndInv'
<1>1. /\ Started(t) /\ status[t] = Running /\ status' = [status EXCEPT ![t] = how]
      /\ UNCHANGED <<order, pc, zero, page, latest, polled, settled, told>>
  BY DEF EndTurn
<1>2. TypeOK'
  BY <1>1 DEF IndInv, TypeOK
<1>3. Running \notin Endings
  BY DEF Running, Endings
<1>4. /\ Started(Target)' <=> Started(Target)
      /\ InPage(Target)' <=> InPage(Target)
      /\ status'[Target] = status[Target] \/ (status[Target] = Running /\ status'[Target] \in Endings)
  BY <1>1, WaitAssumption DEF Started, InPage, IndInv, TypeOK
<1>5. \A seen : Exact(seen) => Exact(seen)'
  BY <1>1, <1>4 DEF Exact, Terminal
<1> QED BY <1>1, <1>2, <1>3, <1>4, <1>5 DEF IndInv, Terminal

\* Once the turn has ended, the server says so as long as the turn is in the page.
LEMMA AnswerInv ==
  ASSUME IndInv, ServerAnswers
  PROVE  IndInv'
<1>1. /\ pc' = "answered" /\ page' = Found
      /\ UNCHANGED <<order, status, zero, latest, polled, settled, told>>
  BY DEF ServerAnswers, server
<1>2. Found \in Seen /\ Exact(Found)
  <2>1. CASE InPage(Target)
    <3>1. Found = status[Target] /\ status[Target] \in Endings \union {Running}
      BY <2>1, WaitAssumption DEF Found, IndInv, TypeOK
    <3>2. Started(Target)
      BY <2>1 DEF InPage, Started
    <3> QED BY <3>1, <3>2 DEF Seen, Exact, Terminal, IndInv
  <2>2. CASE ~InPage(Target)
    BY <2>2 DEF Found, Seen, Exact
  <2> QED BY <2>1, <2>2
<1>3. TypeOK'
  BY <1>1, <1>2 DEF IndInv, TypeOK
<1>4. (\A seen : Exact(seen) => Exact(seen)') /\ (Started(Target)' <=> Started(Target))
  BY <1>1 DEF Exact, InPage, Started, Terminal
<1> QED BY <1>1, <1>2, <1>3, <1>4 DEF IndInv, Terminal

LEMMA CallInv ==
  ASSUME IndInv, Call
  PROVE  IndInv'
<1>1. /\ UNCHANGED <<order, status, zero, page, latest, polled, told>>
      /\ pc = "new" /\ pc' = "asking" /\ ~polled /\ latest = None
      /\ settled' = (Started(Target) /\ status[Target] # Running)
  BY DEF Call, IndInv
<1>2. TypeOK'
  BY <1>1 DEF IndInv, TypeOK
<1>3. settled' => Started(Target)' /\ status'[Target] \in Endings
  BY <1>1, WaitAssumption DEF IndInv, TypeOK, Started
<1> QED BY <1>1, <1>2, <1>3 DEF IndInv

\* The result is what the last poll saw.
LEMMA ResultInv ==
  ASSUME IndInv, Receive \/ PollAgain \/ TimeOut \/ Fail
  PROVE  IndInv'
<1>1. UNCHANGED <<order, status, zero, page, settled>>
  BY DEF Receive, PollAgain, TimeOut, Fail, server
<1>2. (\A seen : Exact(seen) => Exact(seen)') /\ (Started(Target)' <=> Started(Target))
  BY <1>1 DEF Exact, InPage, Started, Terminal
<1>3. CASE PollAgain \/ Fail
  <2>1. /\ UNCHANGED <<latest, polled, told>> /\ pc' \in {"asking", "error"}
    BY <1>3 DEF PollAgain, Fail
  <2>2. TypeOK'
    BY <1>1, <2>1 DEF IndInv, TypeOK
  <2> QED BY <1>1, <1>2, <2>1, <2>2 DEF IndInv
<1>4. ASSUME NEW seen \in Seen, Tell(seen), latest' = seen,
             \/ polled' = TRUE /\ Exact(seen)
             \/ polled = FALSE /\ polled' = FALSE /\ seen = None
      PROVE  IndInv'
  <2>1. told' = [timedOut |-> ~Terminal(seen), turn |-> seen] /\ pc' = "done"
    BY <1>4 DEF Tell
  <2>2. TypeOK'
    <3>1. told' \in [timedOut : BOOLEAN, turn : Seen] /\ polled' \in BOOLEAN
      BY <1>4, <2>1 DEF Terminal, IndInv, TypeOK
    <3> QED BY <1>1, <1>4, <2>1, <3>1 DEF IndInv, TypeOK
  <2>3. told'.timedOut = ~Terminal(told'.turn) /\ told'.turn = seen
    BY <2>1
  <2> QED BY <1>1, <1>2, <1>4, <2>1, <2>2, <2>3 DEF IndInv, Terminal
<1>5. CASE TimeOut
  BY <1>4, <1>5 DEF TimeOut, IndInv, TypeOK
<1>6. CASE Receive
  <2>1. Exact(page) /\ page \in Seen /\ latest' = page /\ polled' = TRUE
    BY <1>6 DEF Receive, IndInv, TypeOK
  <2>2. CASE Tell(page)
    BY <1>4, <2>1, <2>2
  <2>3. CASE pc' = "sleeping" /\ UNCHANGED told
    <3>1. TypeOK'
      BY <1>1, <2>1, <2>3 DEF IndInv, TypeOK
    <3> QED BY <1>1, <1>2, <2>1, <2>3, <3>1 DEF IndInv
  <2> QED BY <1>6, <2>2, <2>3 DEF Receive
<1> QED BY <1>3, <1>5, <1>6

LEMMA NextInv == IndInv /\ [Next]_vars => IndInv'
<1> SUFFICES ASSUME IndInv, [Next]_vars PROVE IndInv'
  OBVIOUS
<1>1. CASE UNCHANGED vars
  <2>1. UNCHANGED <<order, status, pc, zero, page, latest, polled, settled, told>>
    BY <1>1 DEF vars, server
  <2> QED BY <2>1 DEF IndInv, TypeOK, Exact, InPage, Started, Terminal
<1>2. CASE Next
  BY <1>2, StartTurnInv, EndTurnInv, CallInv, AnswerInv, ResultInv DEF Next, CallStep
<1> QED BY <1>1, <1>2

LEMMA Invariance == Spec => []IndInv
BY InitInv, NextInv, PTL DEF Spec

\* Every variable keeps its type.
THEOREM TypeCorrect == Spec => []TypeOK
BY Invariance, PTL DEF IndInv

\* wait_thread never tells of another turn, tells only what was true of this one, and
\* one answer is enough for a turn that ended before the call, whatever the number of
\* turns that start meanwhile and the length of a page.
THEOREM ResultIsOfTheTurn == Spec => []TellsOfTheTurn
<1>1. IndInv => TellsOfTheTurn
  <2> SUFFICES ASSUME IndInv, pc = "done"
               PROVE  /\ told.turn # None => Started(Target)
                                            /\ told.turn \in {Running, status[Target]}
                      /\ polled /\ settled /\ InPage(Target) => ~told.timedOut
    BY DEF TellsOfTheTurn
  <2> QED BY DEF IndInv, Exact
<1> QED BY <1>1, Invariance, PTL

-----------------------------------------------------------------------------
(***************************************************************************)
(* Liveness.  The provers know nothing of ENABLED: that the deadline, or   *)
(* the timeout of a request, can come is a hypothesis, each line of which  *)
(* repeats the conditions of one action.  TLC finds it an invariant.       *)
(***************************************************************************)
GuardsEnable ==
  /\ ~zero /\ pc \in {"asking", "answered", "sleeping"} => ENABLED <<TimeOut>>_vars
  /\ zero /\ pc \in {"asking", "answered"} => ENABLED <<zero /\ Fail>>_vars

Polling == pc \in {"asking", "answered", "sleeping"}

Told == pc \in {"done", "error"}

\* With a deadline, a call polls until it is over; without one it never sleeps.
LEMMA PollingStep ==
  ASSUME [Next]_vars
  PROVE  /\ ~zero /\ Polling => (~zero /\ Polling)' \/ Told'
         /\ zero /\ Polling /\ pc # "sleeping" =>
              (zero /\ Polling /\ pc # "sleeping")' \/ Told'
<1> USE DEF Polling, Told
<1>1. CASE UNCHANGED vars
  BY <1>1 DEF vars, server
<1>2. CASE \E t \in Turns : StartTurn(t) \/ \E how \in Endings : EndTurn(t, how)
  BY <1>2 DEF StartTurn, EndTurn
<1>3. CASE Call \/ ServerAnswers \/ Fail
  BY <1>3 DEF Call, ServerAnswers, Fail, server
<1>4. CASE Receive \/ PollAgain \/ TimeOut
  BY <1>4 DEF Receive, PollAgain, TimeOut, Tell
<1> QED BY <1>1, <1>2, <1>3, <1>4 DEF Next, CallStep

\* A wait ends, whatever the server does and however often the call polls.
THEOREM WaitsEnd == FairSpec /\ []GuardsEnable => WaitEnds
<1>1. ~zero /\ Polling /\ [Next]_vars => (~zero /\ Polling)' \/ Told'
  BY PollingStep
<1>2. zero /\ Polling /\ pc # "sleeping" /\ [Next]_vars =>
        (zero /\ Polling /\ pc # "sleeping")' \/ Told'
  BY PollingStep
<1>3. <<TimeOut>>_vars => Told'
  BY DEF TimeOut, Tell, Told
<1>4. <<zero /\ Fail>>_vars => Told'
  BY DEF Fail, Told
<1>5. /\ GuardsEnable /\ ~zero /\ Polling => ENABLED <<TimeOut>>_vars
      /\ GuardsEnable /\ zero /\ Polling /\ pc # "sleeping" => ENABLED <<zero /\ Fail>>_vars
  BY DEF GuardsEnable, Polling
<1>6. pc = "asking" => Polling /\ pc # "sleeping"
  BY DEF Polling
<1>7. Told <=> pc \in {"done", "error"}
  BY DEF Told
<1> QED BY <1>1, <1>2, <1>3, <1>4, <1>5, <1>6, <1>7, PTL DEF FairSpec, Spec, WaitEnds
=============================================================================
