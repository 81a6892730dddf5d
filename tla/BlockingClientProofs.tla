----------------------- MODULE BlockingClientProofs -----------------------
(***************************************************************************)
(* Proofs about BlockingClient, for every number of notifications that may *)
(* wait in the transport.                                                  *)
(*                                                                         *)
(* Freshness needs what the board has answered to grow along the queue of  *)
(* notifications: an answer leaves the transport only after it was put in, *)
(* and whatever stands behind it there was sent after it.                  *)
(***************************************************************************)
EXTENDS BlockingClient, TLAPS

-----------------------------------------------------------------------------
(* The inductive invariant. *)

Steps ==
  {"connect", "initialize", "askBattery", "awaitBattery", "askPieces", "awaitPieces",
   "awaitPosition"}

Notifications == [kind : Kinds, after : SUBSET Queries]

TypeInv ==
  /\ pc \in Steps \cup {"shutdown", "done"}
  /\ operation \in {"none", "Ok", "Transport", "Decode"}
  /\ observed \in Seq(Notifications)
  /\ pending \in Seq(Notifications)
  /\ asked \subseteq Queries /\ answered \subseteq Queries
  /\ subscribed \subseteq {"Position", "CommandResponse"}

\* How many values the observer has been given before a step of run.
GivenAt(step) ==
  CASE step \in {"connect", "initialize", "askBattery", "awaitBattery"} -> 0
    [] step \in {"askPieces", "awaitPieces"} -> 1
    [] step = "awaitPosition" -> 2

KindAt(i) == CASE i = 1 -> "battery" [] i = 2 -> "pieces" [] i = 3 -> "position"

ProgressInv ==
  /\ Len(observed) <= 3
  /\ \A i \in 1 .. Len(observed) : observed[i].kind = KindAt(i)
  /\ pc \in Steps => operation = "none" /\ Len(observed) = GivenAt(pc)
  /\ pc = "shutdown" => operation # "none"
  /\ pc = "shutdown" /\ operation = "Ok" => Len(observed) = 3
  /\ pc = "connect" => subscribed = {}

\* The queries that the board must have answered before a step of run.
DoneBy(step) ==
  CASE step \in {"connect", "initialize", "askBattery", "awaitBattery"} -> {}
    [] step \in {"askPieces", "awaitPieces"} -> {"battery"}
    [] step = "awaitPosition" -> Queries

\* The queries answered once n is in the transport.
Answers(n) == n.after \cup ({n.kind} \cap Queries)

AnswerInv ==
  /\ \A i \in 1 .. Len(pending) : Answers(pending[i]) \subseteq answered
  /\ \A i, j \in 1 .. Len(pending) : i < j => Answers(pending[i]) \subseteq pending[j].after
  /\ pc \in Steps =>
        /\ DoneBy(pc) \subseteq answered
        /\ \A i \in 1 .. Len(pending) : DoneBy(pc) \subseteq pending[i].after

IInv == TypeInv /\ ProgressInv /\ AnswerInv /\ MoveIsFresh /\ ResultIsTrue

-----------------------------------------------------------------------------
(* The tables of run. *)

LEMMA Tables ==
  /\ DOMAIN After = Steps
  /\ DOMAIN Wanted = {"awaitBattery", "awaitPieces", "awaitPosition"}
  /\ DOMAIN QueryOf = {"askBattery", "askPieces"}
  /\ After["connect"] = "initialize" /\ After["initialize"] = "askBattery"
  /\ After["askBattery"] = "awaitBattery" /\ After["awaitBattery"] = "askPieces"
  /\ After["askPieces"] = "awaitPieces" /\ After["awaitPieces"] = "awaitPosition"
  /\ After["awaitPosition"] = "shutdown"
  /\ Wanted["awaitBattery"] = "battery" /\ Wanted["awaitPieces"] = "pieces"
  /\ Wanted["awaitPosition"] = "position"
  /\ QueryOf["askBattery"] = "battery" /\ QueryOf["askPieces"] = "pieces"
BY DEF After, Wanted, QueryOf, Steps

\* A step that succeeds without an event to report needs nothing new.
LEMMA QuietSteps ==
  ASSUME NEW step \in {"connect", "initialize", "askBattery", "askPieces"}
  PROVE  /\ After[step] \in Steps \ {"connect"}
         /\ GivenAt(After[step]) = GivenAt(step)
         /\ DoneBy(After[step]) = DoneBy(step)
BY Tables DEF Steps, GivenAt, DoneBy

-----------------------------------------------------------------------------
(* Initial states. *)

LEMMA IInvInit == Init => IInv
BY DEF Init, IInv, TypeInv, ProgressInv, AnswerInv, MoveIsFresh, ResultIsTrue, Steps,
   GivenAt, DoneBy, Notifications

-----------------------------------------------------------------------------
(* Steps that leave the notifications and what was observed alone. *)

\* Whatever happens to the link and to the queries, if no notification comes or
\* goes and the step needs as much as the one before.
LEMMA QuietInv ==
  ASSUME IInv, UNCHANGED <<observed, pending, answered>>,
         pc' \in Steps \cup {"shutdown", "done"},
         pc' \in Steps => pc \in Steps /\ DoneBy(pc') = DoneBy(pc)
  PROVE  /\ observed' \in Seq(Notifications) /\ pending' \in Seq(Notifications)
         /\ answered' \subseteq Queries
         /\ AnswerInv' /\ MoveIsFresh'
BY DEF IInv, TypeInv, AnswerInv, MoveIsFresh

LEMMA ConnectKeeps == ASSUME IInv, Connect PROVE IInv'
<1> USE DEF IInv, Connect, linkVars, boardVars
<1>1. CASE Proceed
  <2>1. pc' = "initialize" /\ operation' = operation
    BY <1>1, Tables DEF Proceed
  <2>2. GivenAt(pc') = GivenAt(pc) /\ DoneBy(pc') = DoneBy(pc) /\ pc \in Steps
    BY <2>1 DEF GivenAt, DoneBy, Steps
  <2>3. AnswerInv' /\ MoveIsFresh'
    BY <2>1, <2>2, QuietInv DEF Steps
  <2>4. TypeInv' /\ ProgressInv' /\ ResultIsTrue'
    BY <2>1, <2>2 DEF TypeInv, ProgressInv, ResultIsTrue, Steps
  <2> QED
    BY <2>3, <2>4
<1>2. CASE pc' = "done" /\ result' = "Connect" /\ UNCHANGED operation
  <2>1. AnswerInv' /\ MoveIsFresh'
    BY <1>2, QuietInv DEF Steps
  <2>2. TypeInv' /\ ProgressInv' /\ ResultIsTrue'
    BY <1>2 DEF TypeInv, ProgressInv, ResultIsTrue, Steps
  <2> QED
    BY <2>1, <2>2
<1> QED
  BY <1>1, <1>2

\* The calls that end without a notification: run goes on, or gives up.
LEMMA QuietStep ==
  ASSUME IInv, pc \in {"initialize", "askBattery", "askPieces"},
         UNCHANGED <<observed, pending, answered, result>>,
         asked' \subseteq Queries, subscribed' \subseteq {"Position", "CommandResponse"},
         Proceed \/ \E error \in {"Transport", "Decode"} : Abort(error)
  PROVE  IInv'
<1>1. CASE Proceed
  <2>1. /\ pc' \in Steps \ {"connect"} /\ pc' # "shutdown" /\ pc' # "done"
        /\ operation' = operation
        /\ GivenAt(pc') = GivenAt(pc) /\ DoneBy(pc') = DoneBy(pc) /\ pc \in Steps
    BY <1>1, QuietSteps DEF Proceed, Steps
  <2>2. AnswerInv' /\ MoveIsFresh'
    BY <2>1, QuietInv
  <2>3. TypeInv' /\ ProgressInv' /\ ResultIsTrue'
    BY <2>1 DEF IInv, TypeInv, ProgressInv, ResultIsTrue
  <2> QED
    BY <2>2, <2>3 DEF IInv
<1>2. CASE \E error \in {"Transport", "Decode"} : Abort(error)
  <2>1. pc' = "shutdown" /\ operation' \in {"Transport", "Decode"}
    BY <1>2 DEF Abort
  <2>2. AnswerInv' /\ MoveIsFresh'
    BY <2>1, QuietInv DEF Steps
  <2>3. TypeInv' /\ ProgressInv' /\ ResultIsTrue'
    BY <2>1 DEF IInv, TypeInv, ProgressInv, ResultIsTrue, Steps
  <2> QED
    BY <2>2, <2>3 DEF IInv
<1> QED
  BY <1>1, <1>2

LEMMA InitializeKeeps == ASSUME IInv, Initialize PROVE IInv'
<1>1. /\ UNCHANGED <<observed, pending, answered, asked, result>>
      /\ subscribed' \subseteq {"Position", "CommandResponse"}
  BY DEF Initialize, InitializedTo, boardVars
<1>2. asked' \subseteq Queries
  BY <1>1 DEF IInv, TypeInv
<1>3. pc = "initialize" /\ (Proceed \/ Abort("Transport"))
  BY DEF Initialize
<1> QED
  BY <1>1, <1>2, <1>3, QuietStep

LEMMA AskKeeps == ASSUME IInv, Ask PROVE IInv'
<1>1. pc \in {"askBattery", "askPieces"} /\ QueryOf[pc] \in Queries
  BY Tables DEF Ask, Queries
<1>2. /\ UNCHANGED <<observed, pending, answered, result, subscribed>>
      /\ asked' \subseteq Queries
  BY <1>1 DEF IInv, TypeInv, Ask, Written, linkVars, boardVars
<1>3. subscribed' \subseteq {"Position", "CommandResponse"}
  BY <1>2 DEF IInv, TypeInv
<1>4. Proceed \/ Abort("Transport")
  BY DEF Ask
<1> QED
  BY <1>1, <1>2, <1>3, <1>4, QuietStep

LEMMA ReceiveFailsKeeps == ASSUME IInv, ReceiveFails PROVE IInv'
<1>1. /\ pc \in {"awaitBattery", "awaitPieces", "awaitPosition"}
      /\ pc' = "shutdown" /\ operation' = "Transport"
      /\ UNCHANGED <<observed, pending, answered, asked, result, subscribed>>
  BY Tables DEF ReceiveFails, Abort, linkVars, boardVars
<1>2. AnswerInv' /\ MoveIsFresh'
  BY <1>1, QuietInv DEF Steps
<1>3. TypeInv' /\ ProgressInv' /\ ResultIsTrue'
  BY <1>1 DEF IInv, TypeInv, ProgressInv, ResultIsTrue, Steps
<1> QED
  BY <1>2, <1>3 DEF IInv

-----------------------------------------------------------------------------
(* shutdown. *)

LEMMA ShutdownKeeps == ASSUME IInv, Shutdown PROVE IInv'
<1>1. /\ pc = "shutdown" /\ pc' = "done" /\ operation \notin {"none"}
      /\ UNCHANGED <<observed, pending, answered, asked, operation>>
  BY DEF IInv, ProgressInv, Shutdown, ShutTo, boardVars
<1>2. subscribed' \subseteq subscribed
  BY DEF Shutdown, ShutTo
<1>3. AnswerInv' /\ MoveIsFresh'
  BY <1>1, QuietInv DEF Steps
<1>4. TypeInv' /\ ProgressInv'
  BY <1>1, <1>2 DEF IInv, TypeInv, ProgressInv, Steps
<1>5. result' = "Ok" => ShutTo(3) /\ operation = "Ok"
  BY DEF Shutdown, Returned
<1>6. ShutTo(3) => subscribed' = {} /\ closed'
  <2>1. ShutTo(3) => subscribed' = {}
    BY DEF ShutTo
  <2>2. ShutTo(3) => (closed' = (3 >= 3))
    BY DEF ShutTo
  <2>3. (3 >= 3) = TRUE
    OBVIOUS
  <2> QED
    BY <2>1, <2>2, <2>3, Zenon
<1>7. ASSUME result' = "Ok"
      PROVE  [i \in DOMAIN observed' |-> observed'[i].kind] = <<"battery", "pieces", "position">>
  <2>1. observed \in Seq(Notifications) /\ Len(observed) = 3
    BY <1>1, <1>5, <1>7 DEF IInv, TypeInv, ProgressInv
  <2>2. /\ observed[1].kind = "battery" /\ observed[2].kind = "pieces"
        /\ observed[3].kind = "position" /\ DOMAIN observed = 1 .. 3
    BY <2>1 DEF IInv, ProgressInv, KindAt
  <2> QED
    BY <1>1, <2>2
<1>8. operation # "Ok" => result' = operation
  BY DEF Shutdown, Returned
<1>9. result' # "Connect"
  BY <1>1 DEF Shutdown, Returned, IInv, TypeInv
<1> QED
  BY <1>1, <1>3, <1>4, <1>5, <1>6, <1>7, <1>8, <1>9 DEF IInv, ResultIsTrue

-----------------------------------------------------------------------------
(* A notification comes. *)

LEMMA BoardSendsKeeps == ASSUME IInv, NEW kind \in Kinds, BoardSends(kind) PROVE IInv'
<1> DEFINE n == [kind |-> kind, after |-> answered]
<1>1. /\ pending' = Append(pending, n) /\ answered' = answered \cup ({kind} \cap Queries)
      /\ UNCHANGED <<pc, operation, result, observed, subscribed, closed>>
      /\ asked' \subseteq asked
  BY DEF BoardSends, clientVars, linkVars
<1>2. n \in Notifications /\ pending \in Seq(Notifications)
  BY DEF IInv, TypeInv, Notifications
<1>3. TypeInv' /\ ProgressInv' /\ MoveIsFresh' /\ ResultIsTrue'
  BY <1>1, <1>2 DEF IInv, TypeInv, ProgressInv, MoveIsFresh, ResultIsTrue
<1>4. /\ Len(pending') = Len(pending) + 1 /\ Len(pending) \in Nat
      /\ \A i \in 1 .. Len(pending) : pending'[i] = pending[i]
      /\ pending'[Len(pending')] = n
  BY <1>1, <1>2
<1>5. /\ n.kind = kind /\ n.after = answered
      /\ Answers(n) = answered'
  BY <1>1 DEF Answers
<1> HIDE DEF n
<1>6. AnswerInv'
  <2>1. \A i \in 1 .. Len(pending') : Answers(pending'[i]) \subseteq answered'
    BY <1>1, <1>4, <1>5 DEF IInv, AnswerInv
  <2>2. ASSUME NEW i \in 1 .. Len(pending'), NEW j \in 1 .. Len(pending'), i < j
        PROVE  Answers(pending'[i]) \subseteq pending'[j].after
    <3>1. i \in 1 .. Len(pending)
      BY <1>4, <2>2
    <3>2. CASE j = Len(pending')
      BY <1>4, <1>5, <3>1, <3>2 DEF IInv, AnswerInv
    <3>3. CASE j # Len(pending')
      BY <1>4, <2>2, <3>1, <3>3 DEF IInv, AnswerInv
    <3> QED
      BY <3>2, <3>3
  <2>3. pc \in Steps =>
          /\ DoneBy(pc) \subseteq answered'
          /\ \A i \in 1 .. Len(pending') : DoneBy(pc) \subseteq pending'[i].after
    BY <1>1, <1>4, <1>5 DEF IInv, AnswerInv
  <2> QED
    BY <1>1, <2>1, <2>2, <2>3 DEF AnswerInv, Answers
<1> QED
  BY <1>3, <1>6 DEF IInv

-----------------------------------------------------------------------------
(* A notification is taken out. *)

\* What is left behind the first notification, and what that one says about it.
LEMMA TakenKeeps ==
  ASSUME IInv, Taken
  PROVE  /\ pending' \in Seq(Notifications) /\ Head(pending) \in Notifications
         /\ UNCHANGED <<asked, answered, result, subscribed, closed>>
         /\ pc \in {"awaitBattery", "awaitPieces", "awaitPosition"}
         /\ \A i \in 1 .. Len(pending') : Answers(pending'[i]) \subseteq answered
         /\ \A i, j \in 1 .. Len(pending') :
               i < j => Answers(pending'[i]) \subseteq pending'[j].after
         /\ DoneBy(pc) \subseteq Head(pending).after
         /\ Answers(Head(pending)) \subseteq answered
         /\ \A i \in 1 .. Len(pending') : Answers(Head(pending)) \subseteq pending'[i].after
<1>1. /\ pending \in Seq(Notifications) /\ pending # <<>> /\ pending' = Tail(pending)
      /\ UNCHANGED <<asked, answered, result, subscribed, closed>>
      /\ pc \in {"awaitBattery", "awaitPieces", "awaitPosition"}
  BY Tables DEF IInv, TypeInv, Taken, linkVars
<1>2. /\ pending' \in Seq(Notifications) /\ Head(pending) \in Notifications
      /\ Head(pending) = pending[1] /\ Len(pending') = Len(pending) - 1
      /\ Len(pending) \in Nat /\ Len(pending) >= 1
      /\ \A i \in 1 .. Len(pending') : pending'[i] = pending[i + 1]
  BY <1>1
<1>3. \A i \in 1 .. Len(pending') : i + 1 \in 1 .. Len(pending) /\ 1 < i + 1
  BY <1>2
<1>4. 1 \in 1 .. Len(pending) /\ pc \in Steps
  BY <1>1, <1>2 DEF Steps
<1>5. \A i, j \in 1 .. Len(pending') : i < j => i + 1 < j + 1
  OBVIOUS
<1> QED
  BY <1>1, <1>2, <1>3, <1>4, <1>5 DEF IInv, AnswerInv

\* run stays where it is: the notification is of no use to it.
LEMMA SkipKeeps ==
  ASSUME IInv, Taken, UNCHANGED <<pc, operation, observed>>
  PROVE  IInv'
<1>1. TypeInv' /\ ProgressInv' /\ MoveIsFresh' /\ ResultIsTrue'
  BY TakenKeeps DEF IInv, TypeInv, ProgressInv, MoveIsFresh, ResultIsTrue
<1>2. \A i \in 1 .. Len(pending') : DoneBy(pc) \subseteq pending'[i].after
  BY TakenKeeps DEF Answers
<1>3. AnswerInv'
  BY <1>2, TakenKeeps DEF IInv, AnswerInv, Answers
<1> QED
  BY <1>1, <1>3 DEF IInv

LEMMA DecodeFailsKeeps == ASSUME IInv, DecodeFails PROVE IInv'
<1>1. Taken /\ pc' = "shutdown" /\ operation' = "Decode" /\ observed' = observed
  BY DEF DecodeFails, Abort
<1>2. TypeInv' /\ ProgressInv' /\ MoveIsFresh' /\ ResultIsTrue'
  BY <1>1, TakenKeeps DEF IInv, TypeInv, ProgressInv, MoveIsFresh, ResultIsTrue, Steps
<1>3. AnswerInv'
  BY <1>1, TakenKeeps DEF AnswerInv, Steps, Answers
<1> QED
  BY <1>2, <1>3 DEF IInv

LEMMA ObserveKeeps == ASSUME IInv, Observe PROVE IInv'
<1> DEFINE n == Head(pending)
<1>1. Taken /\ n.kind = Wanted[pc] /\ observed' = Append(observed, n)
  BY DEF Observe
<1>2. /\ n \in Notifications /\ observed \in Seq(Notifications)
      /\ pc \in {"awaitBattery", "awaitPieces", "awaitPosition"}
      /\ UNCHANGED <<asked, answered, result, subscribed, closed>>
      /\ pending' \in Seq(Notifications)
  BY <1>1, TakenKeeps DEF IInv, TypeInv
<1>3. DoneBy(pc) \subseteq n.after /\ Answers(n) \subseteq answered
  BY <1>1, TakenKeeps
<1>4. \A i \in 1 .. Len(pending') : Answers(n) \subseteq pending'[i].after
  BY <1>1, TakenKeeps
<1> HIDE DEF n
<1>5. /\ observed' \in Seq(Notifications) /\ Len(observed') = Len(observed) + 1
      /\ \A i \in 1 .. Len(observed) : observed'[i] = observed[i]
      /\ observed'[Len(observed')] = n
  BY <1>1, <1>2
<1>6. /\ pc = "awaitBattery" => pc' = "askPieces"
      /\ pc = "awaitPieces" => pc' = "awaitPosition"
      /\ pc = "awaitPosition" => pc' = "shutdown"
      /\ operation' = IF pc' = "shutdown" THEN "Ok" ELSE operation
  BY Tables DEF Observe, Proceed
<1>7. /\ pc \in Steps /\ Len(observed) = GivenAt(pc) /\ operation = "none" /\ Len(observed) \in Nat
      /\ n.kind = KindAt(GivenAt(pc) + 1)
      /\ pc' \in Steps => GivenAt(pc') = GivenAt(pc) + 1
      /\ GivenAt(pc) \in 0 .. 2
  BY <1>1, <1>2, <1>6, Tables DEF IInv, ProgressInv, Steps, GivenAt, KindAt
<1>8. pc' \in Steps => DoneBy(pc') \subseteq Answers(n)
  BY <1>1, <1>2, <1>3, <1>6, Tables DEF DoneBy, Answers, Queries, Steps
<1>9. TypeInv' /\ ResultIsTrue'
  BY <1>2, <1>5, <1>6 DEF IInv, TypeInv, ResultIsTrue, Steps
<1>10. ProgressInv'
  <2>1. Len(observed') <= 3 /\ (pc' = "shutdown" => Len(observed') = 3)
    BY <1>2, <1>5, <1>6, <1>7 DEF GivenAt
  <2>2. \A i \in 1 .. Len(observed') : observed'[i].kind = KindAt(i)
    BY <1>5, <1>7 DEF IInv, ProgressInv
  <2>3. pc' \in Steps => operation' = "none" /\ Len(observed') = GivenAt(pc')
    BY <1>5, <1>6, <1>7 DEF Steps
  <2>4. pc' # "connect" /\ (pc' = "shutdown" => operation' = "Ok")
    BY <1>2, <1>6
  <2> QED
    BY <2>1, <2>2, <2>3, <2>4 DEF ProgressInv, GivenAt
<1>11. AnswerInv'
  <2>1. /\ \A i \in 1 .. Len(pending') : Answers(pending'[i]) \subseteq answered'
        /\ \A i, j \in 1 .. Len(pending') :
              i < j => Answers(pending'[i]) \subseteq pending'[j].after
    BY <1>1, <1>2, TakenKeeps
  <2>2. pc' \in Steps => /\ DoneBy(pc') \subseteq answered'
                         /\ \A i \in 1 .. Len(pending') : DoneBy(pc') \subseteq pending'[i].after
    BY <1>2, <1>3, <1>4, <1>8
  <2> QED
    BY <2>1, <2>2 DEF AnswerInv, Answers, DoneBy
<1>12. MoveIsFresh'
  <2>1. n.kind = "position" => n.after = Queries
    BY <1>1, <1>2, <1>3, Tables DEF DoneBy, Notifications
  <2>2. \A i \in 1 .. Len(observed') : observed'[i].kind = "position" => observed'[i].after = Queries
    BY <1>2, <1>5, <2>1 DEF IInv, MoveIsFresh
  <2> QED
    BY <1>5, <2>2 DEF MoveIsFresh
<1> QED
  BY <1>9, <1>10, <1>11, <1>12 DEF IInv

-----------------------------------------------------------------------------
(* Every step. *)

LEMMA IInvNext == IInv /\ [Next]_vars => IInv'
<1> SUFFICES ASSUME IInv, [Next]_vars PROVE IInv'
  OBVIOUS
<1>1. ASSUME Taken, UNCHANGED <<pc, operation, observed>> PROVE IInv'
  BY <1>1, SkipKeeps
<1>2. ASSUME Run PROVE IInv'
  BY <1>1, <1>2, ConnectKeeps, InitializeKeeps, AskKeeps, ReceiveFailsKeeps, ShutdownKeeps,
     ObserveKeeps, DecodeFailsKeeps DEF Run, DropEvent, Acknowledged
<1>3. ASSUME NEW kind \in Kinds, BoardSends(kind) PROVE IInv'
  BY <1>3, BoardSendsKeeps
<1>4. ASSUME UNCHANGED <<clientVars, linkVars, asked, answered, pending>> PROVE IInv'
  BY <1>4 DEF IInv, TypeInv, ProgressInv, AnswerInv, MoveIsFresh, ResultIsTrue, clientVars,
     linkVars, DoneBy, GivenAt, Answers
<1>5. FallSilent => UNCHANGED <<clientVars, linkVars, asked, answered, pending>>
  BY DEF FallSilent
<1>6. UNCHANGED vars => UNCHANGED <<clientVars, linkVars, asked, answered, pending>>
  BY DEF vars, boardVars
<1> QED
  BY <1>2, <1>3, <1>4, <1>5, <1>6 DEF Next, Done

-----------------------------------------------------------------------------
(* The theorems. *)

\* The inductive invariant holds in every reachable state.
THEOREM Invariance == Spec => []IInv
BY IInvInit, IInvNext, PTL DEF Spec

\* The position the program waits for last was sent after both answers.
THEOREM MovesAreFresh == Spec => []MoveIsFresh
<1>1. IInv => MoveIsFresh
  BY DEF IInv
<1> QED
  BY <1>1, Invariance, PTL

\* What run returns is what happened.
THEOREM ResultsAreTrue == Spec => []ResultIsTrue
<1>1. IInv => ResultIsTrue
  BY DEF IInv
<1> QED
  BY <1>1, Invariance, PTL
=============================================================================
