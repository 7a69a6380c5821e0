--------------------------- MODULE Shutdown_proofs ---------------------------
(***************************************************************************)
(* Theorems about Shutdown, for any connections, reasons and hooks.        *)
(***************************************************************************)
EXTENDS Shutdown, SequenceTheorems, TLAPS

\* The loop of runShutdownHooks: what it has started and what is left make up
\* the order it was given.
LoopOK ==
    /\ ~shuttingDown => ran = <<>> /\ todo = <<>> /\ deadline = "off"
    /\ shuttingDown =>
          /\ deadline # "off"
          /\ Len(ran) + Len(todo) = Len(HookOrder)
          /\ \A i \in 1..Len(ran) : ran[i] = HookOrder[i]
          /\ \A i \in 1..Len(todo) : todo[i] = HookOrder[Len(ran) + i]
    /\ deadline = "cleared" => todo = <<>>
    /\ running => shuttingDown

\* A server that is closing accepts no connection.
ServerOK == shuttingDown => ~listening

\* A process that has ended did so by the deadline or by running empty.
EndOK ==
    /\ process.end = "forced" => process = Forced
    /\ process.end = "empty" => shuttingDown /\ deadline = "cleared"

IInv == TypeOK /\ LoopOK /\ ServerOK /\ EndOK

\* Reversing the registered hooks gives a sequence of hooks.
LEMMA OrderIsSeq == HookOrder \in Seq(Hooks)
<1>1. Registered \in Seq(Hooks)
  BY HooksAssumption DEF Hooks
<1>2. \A i \in 1..Len(Registered) : Registered[(Len(Registered) - i) + 1] \in Hooks
  BY <1>1, ElementOfSeq
<1> QED BY <1>1, <1>2 DEF HookOrder, Reverse

\* One turn of the loop moves the first hook left to the end of those started.
LEMMA LoopTurns ==
    ASSUME NEW done \in Seq(Hooks), NEW left \in Seq(Hooks), left # <<>>,
           NEW order,
           Len(done) + Len(left) = Len(order),
           \A i \in 1..Len(done) : done[i] = order[i],
           \A i \in 1..Len(left) : left[i] = order[Len(done) + i]
    PROVE  /\ Append(done, Head(left)) \in Seq(Hooks) /\ Tail(left) \in Seq(Hooks)
           /\ Head(left) \in Hooks
           /\ Len(Append(done, Head(left))) + Len(Tail(left)) = Len(order)
           /\ \A i \in 1..Len(Append(done, Head(left))) :
                 Append(done, Head(left))[i] = order[i]
           /\ \A i \in 1..Len(Tail(left)) :
                 Tail(left)[i] = order[Len(Append(done, Head(left))) + i]
<1> DEFINE h == Head(left)
           more == Append(done, h)
<1>1. /\ h \in Hooks /\ Tail(left) \in Seq(Hooks)
      /\ Len(Tail(left)) = Len(left) - 1
      /\ \A i \in 1..Len(Tail(left)) : Tail(left)[i] = left[i + 1]
  BY HeadTailProperties
<1>2. /\ more \in Seq(Hooks) /\ Len(more) = Len(done) + 1
      /\ \A i \in 1..Len(done) : more[i] = done[i]
      /\ more[Len(done) + 1] = h
  BY <1>1, AppendProperties
<1>3. Len(done) \in Nat /\ Len(left) \in Nat \ {0} /\ h = left[1]
  BY EmptySeq, LenProperties
<1>4. h = order[Len(done) + 1]
  BY <1>3
<1> HIDE DEF h, more
<1>5. ASSUME NEW i \in 1..Len(more) PROVE more[i] = order[i]
  <2>1. i \in 1..Len(done) \/ i = Len(done) + 1
    BY <1>2, <1>3
  <2> QED BY <1>2, <1>4, <2>1
<1>6. ASSUME NEW i \in 1..Len(Tail(left)) PROVE Tail(left)[i] = order[Len(more) + i]
  <2>1. i \in Nat /\ i + 1 \in 1..Len(left)
    BY <1>1, <1>3
  <2> QED BY <1>1, <1>2, <1>3, <2>1
<1>7. Len(more) + Len(Tail(left)) = Len(order)
  BY <1>1, <1>2, <1>3
<1> QED BY <1>1, <1>2, <1>5, <1>6, <1>7 DEF h, more

THEOREM Invariance == Spec => []IInv
<1>1. Init => IInv
  <2> SUFFICES ASSUME Init PROVE IInv
    OBVIOUS
  <2>1. todo \in Seq(Hooks) /\ ran \in Seq(Hooks)
    BY EmptySeq DEF Init
  <2>2. TypeOK
    BY <2>1 DEF Init, TypeOK, Alive
  <2>3. LoopOK /\ ServerOK /\ EndOK
    BY DEF Init, LoopOK, ServerOK, EndOK, Alive
  <2> QED BY <2>2, <2>3 DEF IInv
<1>2. IInv /\ [Next]_vars => IInv'
  <2> SUFFICES ASSUME IInv, [Next]_vars PROVE IInv'
    OBVIOUS
  <2> USE DEF IInv
  <2>1. ASSUME NEW c \in Conns, Accept(c) \/ Serve(c) \/ Finish(c) \/ Disconnect(c) PROVE IInv'
    <3>1. /\ UNCHANGED <<listening, shuttingDown, exitCode, todo, running, ran, deadline, process>>
          /\ conn' \in [Conns -> {"none", "fresh", "busy", "idle"}]
      BY <2>1 DEF Accept, Serve, Finish, Disconnect, hooks, TypeOK, ServerOK
    <3>2. TypeOK'
      BY <3>1 DEF TypeOK
    <3>3. LoopOK'
      BY <3>1 DEF LoopOK
    <3>4. ServerOK' /\ EndOK'
      BY <3>1 DEF ServerOK, EndOK
    <3> QED BY <3>2, <3>3, <3>4
  <2>2. ASSUME NEW reason \in Reasons, Shut(reason) PROVE IInv'
    <3>1. Len(<<>>) + Len(HookOrder) = Len(HookOrder) /\ Len(<<>>) = 0
      BY OrderIsSeq, EmptySeq, LenProperties
    <3>2. LoopOK'
      <4>1. \A i \in 1..Len(HookOrder) : HookOrder[i] = HookOrder[Len(<<>>) + i]
        BY <3>1
      <4> QED BY <2>2, <3>1, <4>1 DEF Shut, LoopOK
    <3>3. TypeOK'
      BY <2>2, OrderIsSeq, ReasonsAssumption DEF Shut, CloseServer, TypeOK
    <3>4. ServerOK' /\ EndOK'
      BY <2>2 DEF Shut, CloseServer, TypeOK, ServerOK, EndOK, Alive
    <3> QED BY <3>2, <3>3, <3>4
  <2>3. ASSUME NEW reason \in Reasons, ShutAgain(reason) PROVE IInv'
    BY <2>3 DEF ShutAgain, vars, net, hooks, TypeOK, LoopOK, ServerOK, EndOK
  <2>4. CASE StartHook
    <3>1. shuttingDown /\ todo # <<>> /\ todo \in Seq(Hooks) /\ ran \in Seq(Hooks)
      BY <2>4 DEF StartHook, LoopOK, TypeOK
    <3>2. /\ ran' \in Seq(Hooks) /\ todo' \in Seq(Hooks) /\ Head(todo) \in Hooks
          /\ Len(ran') + Len(todo') = Len(HookOrder)
          /\ \A i \in 1..Len(ran') : ran'[i] = HookOrder[i]
          /\ \A i \in 1..Len(todo') : todo'[i] = HookOrder[Len(ran') + i]
      BY <2>4, <3>1, LoopTurns DEF StartHook, LoopOK
    <3>3. LoopOK'
      <4>1. shuttingDown' = shuttingDown /\ deadline' = deadline /\ deadline = "armed"
        BY <2>4 DEF StartHook
      <4> QED BY <3>1, <3>2, <4>1 DEF LoopOK
    <3>4. TypeOK' /\ ServerOK' /\ EndOK'
      BY <2>4, <3>2 DEF StartHook, net, TypeOK, ServerOK, EndOK, Alive
    <3> QED BY <3>3, <3>4
  <2>5. CASE EndHook \/ Complete \/ ForceExit \/ RunEmpty
    <3>1. /\ UNCHANGED <<listening, shuttingDown, exitCode, todo, ran>>
          /\ deadline # "off" /\ deadline' # "off"
          /\ deadline' = "cleared" => todo = <<>>
      <4>1. CASE EndHook
        BY <4>1 DEF EndHook, net, LoopOK
      <4>2. CASE Complete \/ ForceExit \/ RunEmpty
        BY <4>2 DEF Complete, ForceExit, RunEmpty, NothingPending, Overdue, net, hooks,
           LoopOK
      <4> QED BY <2>5, <4>1, <4>2
    <3>2. /\ conn' \in [Conns -> {"none", "fresh", "busy", "idle"}]
          /\ conn' = conn \/ conn' = [c \in Conns |-> "none"]
      BY <2>5 DEF EndHook, Complete, ForceExit, RunEmpty, net, TypeOK
    <3>3. /\ running' \in BOOLEAN
          /\ deadline' \in {"off", "armed", "cleared", "fired"}
          /\ process' \in [end : {"alive", "empty", "forced"}, code : {0, 1}]
      <4>1. CASE EndHook
        BY <4>1 DEF EndHook, TypeOK
      <4>2. CASE Complete
        BY <4>2 DEF Complete, hooks, TypeOK
      <4>3. CASE ForceExit
        BY <4>3 DEF ForceExit, hooks, TypeOK, Forced
      <4>4. CASE RunEmpty
        BY <4>4 DEF RunEmpty, hooks, TypeOK
      <4> QED BY <2>5, <4>1, <4>2, <4>3, <4>4
    <3>4. TypeOK'
      BY <3>1, <3>2, <3>3 DEF TypeOK
    <3>5. LoopOK'
      <4>1. running' => running
        BY <2>5 DEF EndHook, Complete, ForceExit, RunEmpty, hooks
      <4> QED BY <3>1, <4>1 DEF LoopOK
    <3>6. ServerOK'
      BY <3>1, <3>2 DEF ServerOK
    <3>7. EndOK'
      BY <2>5, <3>1 DEF EndHook, Complete, ForceExit, RunEmpty, NothingPending, EndOK,
         LoopOK, Alive, Forced
    <3> QED BY <3>4, <3>5, <3>6, <3>7
  <2>6. CASE UNCHANGED vars
    BY <2>6 DEF vars, net, hooks, TypeOK, LoopOK, ServerOK, EndOK
  <2> QED BY <2>1, <2>2, <2>3, <2>4, <2>5, <2>6 DEF Next
<1> QED BY <1>1, <1>2, PTL DEF Spec

\* Every variable keeps its type; in particular the process ends with exit
\* code 0 or 1 (gracefulShutdown.ts:44, 64).
THEOREM TypeCorrect == Spec => []TypeOK
BY Invariance, PTL DEF IInv

\* Hooks run last registered first, each at most once, and all of them before a
\* teardown is complete (shutdown.ts:21).
THEOREM HooksRunInReverse == Spec => []HooksUnwind
<1>1. IInv => HooksUnwind
  <2> SUFFICES ASSUME IInv PROVE HooksUnwind
    OBVIOUS
  <2>1. ran \in Seq(Hooks) /\ todo \in Seq(Hooks) /\ HookOrder \in Seq(Hooks)
    BY OrderIsSeq DEF IInv, TypeOK
  <2>2. /\ Len(ran) \in Nat /\ Len(todo) \in Nat /\ Len(HookOrder) \in Nat
        /\ Len(ran) <= Len(HookOrder)
        /\ \A i \in 1..Len(ran) : ran[i] = HookOrder[i]
    BY <2>1, EmptySeq, LenProperties DEF IInv, LoopOK
  <2>3. IsPrefix(ran, HookOrder)
    BY <2>1, <2>2 DEF IsPrefix
  <2>4. ASSUME deadline = "cleared" PROVE ran = HookOrder
    <3>1. todo = <<>> /\ Len(todo) = 0 /\ shuttingDown
      BY <2>4, EmptySeq DEF IInv, LoopOK
    <3>2. Len(ran) = Len(HookOrder)
      BY <2>2, <3>1 DEF IInv, LoopOK
    <3> QED BY <2>1, <2>2, <3>2, SeqEqual
  <2> QED BY <2>3, <2>4 DEF HooksUnwind, HookOrder
<1> QED BY <1>1, Invariance, PTL

\* A process that is shutting down takes on no new client and keeps none that was
\* idle (gracefulShutdown.ts:50, 51).
THEOREM TakesNoNewClients == Spec => NoNewClients
<1>1. IInv /\ [Next]_vars =>
        [shuttingDown' => \A c \in Conns : conn'[c] # "none" =>
            conn[c] # "none" /\ (~shuttingDown => conn[c] # "idle")]_vars
  BY DEF IInv, TypeOK, ServerOK, Next, vars, net, Accept, Serve, Finish, Disconnect, Shut,
     ShutAgain, CloseServer, StartHook, EndHook, Complete, ForceExit, RunEmpty
<1> QED BY <1>1, Invariance, PTL DEF Spec, NoNewClients

\* A process that ends by itself has cut nobody off, keeps the code of the first
\* reason, and is not killed once its teardown is complete
\* (gracefulShutdown.ts:49, 55, 64).
THEOREM CutsNobodyOff == Spec => EndsCleanly
<1>1. IInv /\ [Next]_vars =>
        [/\ process'.end = "empty" => \A c \in Conns : conn[c] # "busy"
         /\ process'.end # "alive" /\ deadline = "cleared" => process'.code = exitCode
         /\ shuttingDown => exitCode' = exitCode]_vars
  <2> SUFFICES ASSUME IInv, Next
               PROVE  /\ process'.end = "empty" => \A c \in Conns : conn[c] # "busy"
                      /\ process'.end # "alive" /\ deadline = "cleared" =>
                            process'.code = exitCode
                      /\ shuttingDown => exitCode' = exitCode
    OBVIOUS
  <2>1. CASE process # Alive
    BY <2>1 DEF Next, Accept, Serve, Finish, Disconnect, Shut, ShutAgain, StartHook, EndHook,
       Complete, ForceExit, RunEmpty, IInv, EndOK
  <2>2. CASE RunEmpty
    BY <2>2 DEF RunEmpty, NothingPending
  <2>3. CASE ForceExit
    BY <2>3 DEF ForceExit, Overdue, Forced
  <2>4. CASE process = Alive /\ process' = process
    <3>1. process'.end = "alive"
      BY <2>4 DEF Alive
    <3>2. shuttingDown => exitCode' = exitCode
      BY DEF Next, Accept, Serve, Finish, Disconnect, Shut, ShutAgain, StartHook, EndHook,
         Complete, ForceExit, RunEmpty, vars
    <3> QED BY <3>1, <3>2
  <2>5. process' = process \/ RunEmpty \/ ForceExit
    BY DEF Next, Accept, Serve, Finish, Disconnect, Shut, ShutAgain, StartHook, EndHook, Complete,
       vars
  <2> QED BY <2>1, <2>2, <2>3, <2>4, <2>5
<1> QED BY <1>1, Invariance, PTL DEF Spec, EndsCleanly
=============================================================================
