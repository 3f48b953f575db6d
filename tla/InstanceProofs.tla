--------------------------- MODULE InstanceProofs ---------------------------
(* Theorems about Instance, for any number of actors, threads and calls.    *)
EXTENDS Instance, TLAPS

LEMMA MessageKinds ==
    /\ Plain("null") \in Message
    /\ Plain("link") \in Message
    /\ \A f \in {"link", "send", "send_normal", "send_kill"} : Sent(f) \in Message
    /\ \A q \in Reason : Exit(q) \in Message
BY DEF Message, Plain, Exit, Reason, Sent

LEMMA TaskTypes ==
    /\ \A a \in Actor : InitTask(a) \in Task
    /\ \A p, a \in Actor : LinkTask(p, a) \in Task
BY MessageKinds DEF Task, InitTask, LinkTask

LEMMA TypeInit == Init => TypeOK
<1> SUFFICES ASSUME Init PROVE TypeOK
  OBVIOUS
<1>1. strand \in [Actor -> Seq(Task)]
  BY TaskTypes DEF Init
<1>2. /\ call \in [Actor -> Call]
      /\ child \in [Actor -> {NoChild} \cup [of : Actor, linked : BOOLEAN]]
      /\ peers \in [Actor -> SUBSET Actor]
      /\ seen \in [Actor -> SUBSET Actor]
      /\ crashed \in BOOLEAN
  BY Zenon DEF Init, Call
<1> QED
  BY <1>1, <1>2, InstanceAssumption DEF Init, TypeOK

\* ~instance keeps obj and last_exit in their types.
LEMMA ReapType ==
    ASSUME obj \in [Actor -> {"none", "live", "destroyed"}], last_exit \in Nat, Reap
    PROVE  /\ obj' \in [Actor -> {"none", "live", "destroyed"}]
           /\ last_exit' \in Nat
BY DEF Reap

LEMMA BeginExitType ==
    ASSUME TypeOK, NEW a \in Actor, NEW q \in Reason, BeginExit(a, q)
    PROVE  /\ pc' \in [Actor -> {"idle", "body", "exit", "finish"}]
           /\ in_shutdown' \subseteq Actor
           /\ why' \in [Actor -> Reason \cup {"none"}]
           /\ todo' \in [Actor -> Seq(Actor)]
           /\ peers' \in [Actor -> SUBSET Actor]
<1>1. Members(links[a]) \in SUBSET Actor
  BY DEF TypeOK, Members
<1> QED
  BY <1>1 DEF TypeOK, BeginExit

LEMMA TakeType ==
    ASSUME TypeOK, NEW th \in Thread, NEW a \in Actor, Take(th, a)
    PROVE  /\ First(a) \in Task
           /\ strand' \in [Actor -> Seq(Task)]
BY DEF TypeOK, Take, First

LEMMA AddLinkType ==
    ASSUME TypeOK, NEW th \in Thread, NEW a \in Actor, Take(th, a), AddLink(a)
    PROVE  links' \in [Actor -> Seq(Actor)]
<1>1. IsLink(a) => First(a).from \in Actor
  BY TakeType DEF IsLink, Task, Plain
<1> QED
  BY <1>1 DEF TypeOK, AddLink

\* A call in flight and a child being spawned are records of the right kind.
LEMMA CallTypes ==
    ASSUME TypeOK, NEW a \in Actor
    PROVE  /\ call[a].at # "none" => /\ call[a].to \in Actor
                                     /\ call[a].msg \in Message
                                     /\ call[a].at \in {"check", "post", "drop"}
                                     /\ call[a] \in [to : Actor, msg : Message,
                                                     at : {"check", "post", "drop"}]
           /\ child[a] # NoChild => child[a] \in [of : Actor, linked : BOOLEAN]
BY DEF TypeOK, Call, NoCall

LEMMA LockRefType ==
    ASSUME TypeOK, NEW a \in Actor, NEW t \in Actor, NEW m \in Message, LockRef(a, t, m)
    PROVE  call' \in [Actor -> Call]
BY DEF TypeOK, LockRef, Call

LEMMA UseOpType ==
    ASSUME TypeOK, NEW a \in Actor, NEW f, UseOp(a, f)
    PROVE  ops' \in [Actor -> Nat]
BY DEF TypeOK, UseOp

\* What run and handle_exit keep to: a task rests with no send in flight, an
\* exit has a reason and has set in_shutdown, and only an exit resets lifetime_.
Discipline ==
    \A a \in Actor :
        /\ pc[a] \in {"idle", "finish"} => call[a] = NoCall
        /\ pc[a] = "exit" => a \in in_shutdown /\ why[a] \in Reason
        /\ obj[a] = "live" /\ a \notin in_shutdown => a \in lifetime

LEMMA TypeStep == TypeOK /\ Discipline /\ [Next]_vars => TypeOK'
<1> SUFFICES ASSUME TypeOK, Discipline, [Next]_vars PROVE TypeOK'
  OBVIOUS
<1>1. ASSUME NEW th \in Thread, NEW a \in Actor, RunNothing(th, a) PROVE TypeOK'
  BY <1>1, TakeType, AddLinkType, ReapType DEF RunNothing, TypeOK, hvars, evars
<1>2. ASSUME NEW th \in Thread, NEW a \in Actor, RunKilled(th, a) PROVE TypeOK'
  <2>1. First(a).msg.why \in Reason
    BY <1>2, TakeType DEF RunKilled, Kills, Task, Message, Plain, Exit
  <2> QED
    BY <1>2, <2>1, TakeType, BeginExitType DEF RunKilled, TypeOK, evars
<1>3. ASSUME NEW th \in Thread, NEW a \in Actor, RunReceiver(th, a) PROVE TypeOK'
  BY <1>3, TakeType, AddLinkType DEF RunReceiver, TypeOK, evars
<1>4. ASSUME NEW th \in Thread, NEW a \in Actor, RunDangling(th, a) PROVE TypeOK'
  BY <1>4, TakeType DEF RunDangling, TypeOK, ivars, hvars, evars
<1>5. ASSUME NEW a \in Actor, Receive(a) PROVE TypeOK'
  BY <1>5 DEF Receive, TypeOK, xvars, hvars, evars
<1>6. ASSUME NEW a \in Actor, Trap(a) PROVE TypeOK'
  BY <1>6, UseOpType DEF Trap, TypeOK, hvars, evars
<1>7. ASSUME NEW a \in Actor, ObserveLinks(a) PROVE TypeOK'
  BY <1>7, UseOpType DEF ObserveLinks, TypeOK, hvars, evars
<1>8. ASSUME NEW a \in Actor, NEW t \in Actor,
             NEW f \in {"link", "send", "send_normal", "send_kill"}, Send(a, t, f)
      PROVE  TypeOK'
  <2>1. Sent(f) \in Message
    BY MessageKinds
  <2> QED
    BY <1>8, <2>1, LockRefType, UseOpType DEF Send, TypeOK, ivars, hvars, evars
<1>9. ASSUME NEW a \in Actor, NEW c \in Actor, NEW linked \in BOOLEAN, Spawn(a, c, linked)
      PROVE  TypeOK'
  <2>1. strand' \in [Actor -> Seq(Task)]
    BY <1>9, TaskTypes DEF Spawn, TypeOK, evars
  <2>2. child' \in [Actor -> {NoChild} \cup [of : Actor, linked : BOOLEAN]]
    BY <1>9 DEF Spawn, TypeOK
  <2>3. /\ obj' \in [Actor -> {"none", "live", "destroyed"}]
        /\ parent' \in [Actor -> Actor \cup {None}]
    BY <1>9 DEF Spawn, TypeOK
  <2>4. ops' \in [Actor -> Nat] /\ lifetime' \subseteq Actor
    BY <1>9 DEF Spawn, UseOp, TypeOK
  <2>5. UNCHANGED <<in_shutdown, trap_exit, observe_links, receiver,
                    exit_handlers, links, current, pc, call, evars,
                    last_exit, crashed, peers, seen>>
    BY <1>9 DEF Spawn
  <2> QED
    BY <2>1, <2>2, <2>3, <2>4, <2>5 DEF TypeOK, evars
<1>10. ASSUME NEW a \in Actor, Spawned(a) PROVE TypeOK'
  <2>1. child[a].of \in Actor
    BY <1>10, CallTypes DEF Spawned
  <2>2. links' \in [Actor -> Seq(Actor)]
    BY <1>10, <2>1 DEF Spawned, TypeOK, evars
  <2>3. child' \in [Actor -> {NoChild} \cup [of : Actor, linked : BOOLEAN]]
    BY <1>10 DEF Spawned, TypeOK, evars
  <2> QED
    BY <1>10, <2>2, <2>3, ReapType DEF Spawned, TypeOK, hvars, evars
<1>11. ASSUME NEW a \in Actor, ReturnOk(a) PROVE TypeOK'
  BY <1>11 DEF ReturnOk, TypeOK, ivars, hvars, evars
<1>12. ASSUME NEW a \in Actor, NEW q \in Reason, ReturnExit(a, q) PROVE TypeOK'
  BY <1>12, BeginExitType DEF ReturnExit, TypeOK, evars
<1>13. ASSUME NEW a \in Actor, QueueCheck(a) PROVE TypeOK'
  <2>0. [call[a] EXCEPT !.at = "post"] \in Call
    BY <1>13, CallTypes DEF QueueCheck, Call
  <2>1. call' \in [Actor -> Call]
    BY <1>13, <2>0 DEF QueueCheck, TypeOK, Call
  <2> QED
    BY <1>13, <2>1, ReapType DEF QueueCheck, TypeOK, ivars, hvars, evars
<1>14. ASSUME NEW a \in Actor, QueuePost(a) PROVE TypeOK'
  <2>1. call[a].to \in Actor /\ call[a].msg \in Message
    BY <1>14, CallTypes DEF QueuePost
  <2>2. [from |-> a, msg |-> call[a].msg,
         lifelock |-> IF call[a].to \in lifetime THEN call[a].to ELSE None] \in Task
    BY <2>1 DEF Task
  <2>3. strand' \in [Actor -> Seq(Task)]
    BY <1>14, <2>1, <2>2 DEF QueuePost, TypeOK, evars
  <2>4. [call[a] EXCEPT !.at = "drop"] \in Call
    BY <1>14, CallTypes DEF QueuePost, Call
  <2>5. call' \in [Actor -> Call]
    BY <1>14, <2>4 DEF QueuePost, TypeOK, evars
  <2> QED
    BY <1>14, <2>3, <2>5 DEF QueuePost, TypeOK, ivars, hvars, evars
<1>15. ASSUME NEW a \in Actor, QueueDone(a) PROVE TypeOK'
  <2>1. call[a].to \in Actor
    BY <1>15, CallTypes DEF QueueDone
  <2>2. links' \in [Actor -> Seq(Actor)] /\ call' \in [Actor -> Call]
    BY <1>15, <2>1 DEF QueueDone, TypeOK, Call
  <2> QED
    BY <1>15, <2>2, ReapType DEF QueueDone, TypeOK, hvars, evars
<1>16. ASSUME NEW a \in Actor, NotifyLink(a) PROVE TypeOK'
  <2>1. Head(todo[a]) \in Actor /\ todo' \in [Actor -> Seq(Actor)]
    BY <1>16 DEF NotifyLink, TypeOK, evars
  <2>2. Exit(why[a]) \in Message
    BY <1>16, MessageKinds DEF NotifyLink, Discipline
  <2> QED
    BY <1>16, <2>1, <2>2, LockRefType DEF NotifyLink, TypeOK, ivars, hvars, evars
<1>17. ASSUME NEW a \in Actor, DropLifetime(a) PROVE TypeOK'
  BY <1>17 DEF DropLifetime, TypeOK, hvars, evars
<1>18. ASSUME NEW a \in Actor, HandlerThrows(a) PROVE TypeOK'
  BY <1>18, BeginExitType DEF HandlerThrows, TypeOK, Reason
<1>21. ASSUME NEW a \in Actor, HandlerEscapes(a) PROVE TypeOK'
  BY <1>21 DEF HandlerEscapes, TypeOK, ivars, xvars, hvars, evars
<1>22. ASSUME NEW a \in Actor, Throw(a) PROVE TypeOK'
  BY <1>22, BeginExitType DEF Throw, TypeOK, Reason
<1>19. ASSUME NEW th \in Thread, NEW a \in Actor, Finish(th, a) PROVE TypeOK'
  BY <1>19, ReapType DEF Finish, TypeOK, ivars, hvars, evars
<1>20. CASE UNCHANGED vars
  BY <1>20 DEF vars, ivars, xvars, hvars, TypeOK, evars
<1> QED
  BY <1>1, <1>2, <1>3, <1>4, <1>5, <1>6, <1>7, <1>8, <1>9, <1>10, <1>11, <1>12,
     <1>13, <1>14, <1>15, <1>16, <1>17, <1>18, <1>19, <1>20, <1>21,
     <1>22
  DEF Next, Run, Body, Return, Proceed

-----------------------------------------------------------------------------
LEMMA MembersAppend ==
    ASSUME NEW S, NEW s \in Seq(S), NEW e \in S
    PROVE  Members(Append(s, e)) = Members(s) \cup {e}
<1>1. /\ DOMAIN Append(s, e) = 1 .. Len(s) + 1
      /\ \A i \in 1 .. Len(s) : Append(s, e)[i] = s[i]
      /\ Append(s, e)[Len(s) + 1] = e
      /\ DOMAIN s = 1 .. Len(s)
      /\ Len(s) \in Nat
  OBVIOUS
<1> QED
  BY <1>1 DEF Members

LEMMA MembersTail ==
    ASSUME NEW S, NEW s \in Seq(S), s # <<>>
    PROVE  Members(Tail(s)) \subseteq Members(s)
<1>1. /\ DOMAIN Tail(s) = 1 .. Len(s) - 1
      /\ \A i \in 1 .. Len(s) - 1 : Tail(s)[i] = s[i + 1]
      /\ DOMAIN s = 1 .. Len(s)
      /\ Len(s) \in Nat
  OBVIOUS
<1> QED
  BY <1>1 DEF Members

LEMMA ReapLive ==
    ASSUME TypeOK, Reap, NEW x \in Actor, obj[x] = "live", Held(x)'
    PROVE  obj'[x] = "live"
BY DEF Reap, TypeOK, Held

LEMMA TakeHeld ==
    ASSUME TypeOK, NEW th \in Thread, NEW a \in Actor, Take(th, a), NEW x \in Actor
    PROVE  Members(strand'[x]) \subseteq Members(strand[x])
<1>1. CASE x = a
  BY <1>1, MembersTail DEF Take, TypeOK
<1>2. CASE x # a
  BY <1>2 DEF Take, TypeOK
<1> QED
  BY <1>1, <1>2

\* A step that ends in Reap, or leaves obj alone, and takes no new reference.
LEMMA NoNewReference ==
    ASSUME TypeOK, HeldIsLive, Reap \/ obj' = obj,
           NEW x \in Actor, Held(x)', Held(x)
    PROVE  obj'[x] = "live"
BY ReapLive DEF HeldIsLive

LEMMA HeldStep == TypeOK /\ HeldIsLive /\ [Next]_vars => HeldIsLive'
<1> SUFFICES ASSUME TypeOK, HeldIsLive, [Next]_vars, NEW x \in Actor, Held(x)'
             PROVE  obj'[x] = "live"
  BY DEF HeldIsLive
<1>1. ASSUME NEW th \in Thread, NEW a \in Actor, RunNothing(th, a)
      PROVE  obj'[x] = "live"
  <2>1. Held(x)
    BY <1>1, TakeHeld DEF RunNothing, Held
  <2> QED
    BY <1>1, <2>1, NoNewReference DEF RunNothing
<1>2. ASSUME NEW th \in Thread, NEW a \in Actor, RunKilled(th, a)
      PROVE  obj'[x] = "live"
  <2>1. Held(x) \/ x = a
    BY <1>2, TakeHeld DEF RunKilled, BeginExit, Held, TypeOK
  <2> QED
    BY <1>2, <2>1 DEF RunKilled, HeldIsLive
<1>3. ASSUME NEW th \in Thread, NEW a \in Actor, RunReceiver(th, a)
      PROVE  obj'[x] = "live"
  <2>1. Held(x) \/ x = a
    BY <1>3, TakeHeld DEF RunReceiver, Held, TypeOK
  <2> QED
    BY <1>3, <2>1 DEF RunReceiver, HeldIsLive
<1>4. ASSUME NEW th \in Thread, NEW a \in Actor, RunDangling(th, a)
      PROVE  obj'[x] = "live"
  <2>1. Held(x)
    BY <1>4, TakeHeld DEF RunDangling, Held, ivars
  <2> QED
    BY <1>4, <2>1 DEF RunDangling, HeldIsLive
<1>5. ASSUME NEW a \in Actor, Receive(a) \/ Trap(a) \/ ObserveLinks(a) \/ ReturnOk(a)
      PROVE  obj'[x] = "live"
  <2>1. Held(x)
    BY <1>5 DEF Receive, Trap, ObserveLinks, ReturnOk, InBody, Held, TypeOK, xvars,
                ivars
  <2> QED
    BY <1>5, <2>1 DEF Receive, Trap, ObserveLinks, ReturnOk, HeldIsLive
<1>6. ASSUME NEW a \in Actor, NEW t \in Actor, NEW m, LockRef(a, t, m),
             UNCHANGED <<obj, ivars, strand, pc, child>>
      PROVE  obj'[x] = "live"
  <2>1. Held(x) \/ (x = t /\ obj[t] = "live")
    BY <1>6, InstanceAssumption DEF LockRef, Held, TypeOK, ivars, NoCall
  <2> QED
    BY <1>6, <2>1 DEF HeldIsLive
<1>7. ASSUME NEW a \in Actor, NEW c \in Actor, NEW linked \in BOOLEAN, Spawn(a, c, linked)
      PROVE  obj'[x] = "live"
  <2>1. Held(x) \/ x = c
    BY <1>7 DEF Spawn, Held, TypeOK
  <2> QED
    BY <1>7, <2>1 DEF Spawn, HeldIsLive, TypeOK
<1>8. ASSUME NEW a \in Actor, Spawned(a) PROVE obj'[x] = "live"
  <2>1. Held(x)
    BY <1>8, InstanceAssumption DEF Spawned, Held, TypeOK, NoChild
  <2> QED
    BY <1>8, <2>1, NoNewReference DEF Spawned
<1>9. ASSUME NEW a \in Actor, ReturnExit(a, "normal") \/ ReturnExit(a, "error") \/ Throw(a)
                              \/ HandlerThrows(a)
      PROVE  obj'[x] = "live"
  <2>1. Held(x)
    BY <1>9 DEF ReturnExit, Throw, HandlerThrows, BeginExit, InBody, LinksNotified, Held,
                TypeOK
  <2> QED
    BY <1>9, <2>1 DEF ReturnExit, Throw, HandlerThrows, HeldIsLive
<1>10. ASSUME NEW a \in Actor, QueueCheck(a) PROVE obj'[x] = "live"
  <2>1. Held(x)
    BY <1>10, CallTypes, InstanceAssumption DEF QueueCheck, Held, TypeOK, NoCall, ivars
  <2> QED
    BY <1>10, <2>1, NoNewReference DEF QueueCheck
<1>11. ASSUME NEW a \in Actor, QueuePost(a) PROVE obj'[x] = "live"
  <2>1. call[a] \in [to : Actor, msg : Message, at : {"check", "post", "drop"}]
    BY <1>11, CallTypes DEF QueuePost
  <2>2. \A b \in Actor : call'[b].to = call[b].to
    BY <1>11, <2>1 DEF QueuePost, TypeOK
  <2>3. \A t \in Members(strand'[x]) :
           t \in Members(strand[x]) \/ (t.lifelock = x => x \in lifetime)
    <3>1. DEFINE e == [from |-> a, msg |-> call[a].msg,
                       lifelock |-> IF call[a].to \in lifetime
                                    THEN call[a].to ELSE None]
    <3>2. e \in Task
      BY <2>1 DEF Task
    <3>3. CASE x = call[a].to
      <4>1. strand'[x] = Append(strand[x], e)
        BY <1>11, <3>3 DEF QueuePost, TypeOK
      <4>2. Members(strand'[x]) = Members(strand[x]) \cup {e}
        BY <4>1, <3>2, MembersAppend DEF TypeOK
      <4> QED
        BY <4>2, <3>3, InstanceAssumption
    <3>4. CASE x # call[a].to
      BY <1>11, <3>4 DEF QueuePost, TypeOK
    <3> QED
      BY <3>3, <3>4
  <2>4. Held(x)
    BY <1>11, <2>2, <2>3 DEF QueuePost, Held, ivars
  <2> QED
    BY <1>11, <2>4 DEF QueuePost, HeldIsLive
<1>12. ASSUME NEW a \in Actor, QueueDone(a) PROVE obj'[x] = "live"
  <2>1. Held(x)
    BY <1>12, InstanceAssumption DEF QueueDone, Held, TypeOK, NoCall
  <2> QED
    BY <1>12, <2>1, NoNewReference DEF QueueDone
<1>13. ASSUME NEW a \in Actor, DropLifetime(a) PROVE obj'[x] = "live"
  <2>1. Held(x)
    BY <1>13 DEF DropLifetime, LinksNotified, Held, TypeOK
  <2> QED
    BY <1>13, <2>1 DEF DropLifetime, HeldIsLive
<1>14. ASSUME NEW th \in Thread, NEW a \in Actor, Finish(th, a) PROVE obj'[x] = "live"
  <2>1. Held(x)
    BY <1>14 DEF Finish, Held, TypeOK, ivars
  <2> QED
    BY <1>14, <2>1, NoNewReference DEF Finish
<1>15. ASSUME NEW a \in Actor, HandlerEscapes(a) PROVE obj'[x] = "live"
  <2>1. Held(x)
    BY <1>15 DEF HandlerEscapes, Held, ivars, xvars
  <2> QED
    BY <1>15, <2>1 DEF HandlerEscapes, HeldIsLive
<1>16. CASE UNCHANGED vars
  <2>1. Held(x)
    BY <1>16 DEF vars, Held, ivars, xvars
  <2> QED
    BY <1>16, <2>1 DEF vars, HeldIsLive
<1>17. ASSUME NEW a \in Actor, NEW t \in Actor, NEW f, Send(a, t, f) PROVE obj'[x] = "live"
  BY <1>6, <1>17 DEF Send
<1>18. ASSUME NEW a \in Actor, NotifyLink(a) PROVE obj'[x] = "live"
  <2>1. Head(todo[a]) \in Actor
    BY <1>18 DEF NotifyLink, TypeOK
  <2> QED
    BY <1>6, <1>18, <2>1 DEF NotifyLink
<1> QED
  BY <1>1, <1>2, <1>3, <1>4, <1>5, <1>7, <1>8, <1>9, <1>10, <1>11, <1>12,
     <1>13, <1>14, <1>15, <1>16, <1>17, <1>18
  DEF Next, Run, Body, Return, Proceed, Reason
LEMMA DisciplineStep == TypeOK /\ Discipline /\ [Next]_vars => Discipline'
<1> SUFFICES ASSUME TypeOK, Discipline, [Next]_vars PROVE Discipline'
  OBVIOUS
<1>0. ASSUME Reap PROVE \A x \in Actor : obj'[x] = "live" => obj[x] = "live"
  BY <1>0 DEF Reap, TypeOK
<1>1. ASSUME NEW th \in Thread, NEW a \in Actor, RunNothing(th, a) PROVE Discipline'
  BY <1>0, <1>1 DEF RunNothing, Discipline, evars
<1>2. ASSUME NEW th \in Thread, NEW a \in Actor, RunKilled(th, a) PROVE Discipline'
  <2>1. First(a).msg.why \in Reason
    BY <1>2, TakeType DEF RunKilled, Kills, Task, Message, Plain, Exit
  <2> QED
    BY <1>2, <2>1 DEF RunKilled, BeginExit, Discipline, TypeOK
<1>3. ASSUME NEW th \in Thread, NEW a \in Actor, RunReceiver(th, a) PROVE Discipline'
  BY <1>3 DEF RunReceiver, Discipline, TypeOK, evars
<1>4. ASSUME NEW th \in Thread, NEW a \in Actor, RunDangling(th, a) PROVE Discipline'
  BY <1>4 DEF RunDangling, Discipline, evars, ivars
<1>5. ASSUME NEW a \in Actor, Receive(a) \/ Trap(a) \/ ObserveLinks(a) PROVE Discipline'
  BY <1>5 DEF Receive, Trap, ObserveLinks, Discipline, xvars, evars
<1>6. ASSUME NEW a \in Actor, NEW t \in Actor, NEW f, Send(a, t, f) PROVE Discipline'
  BY <1>6 DEF Send, LockRef, InBody, Discipline, TypeOK, evars, ivars
<1>7. ASSUME NEW a \in Actor, NEW c \in Actor, NEW linked \in BOOLEAN, Spawn(a, c, linked)
      PROVE  Discipline'
  BY <1>7 DEF Spawn, Discipline, TypeOK, evars
<1>8. ASSUME NEW a \in Actor, Spawned(a) PROVE Discipline'
  BY <1>0, <1>8 DEF Spawned, Discipline, evars
<1>9. ASSUME NEW a \in Actor, ReturnOk(a) PROVE Discipline'
  BY <1>9 DEF ReturnOk, InBody, Discipline, TypeOK, evars, ivars
<1>10. ASSUME NEW a \in Actor, NEW q \in Reason, ReturnExit(a, q) PROVE Discipline'
  BY <1>10 DEF ReturnExit, BeginExit, Discipline, TypeOK
<1>11. ASSUME NEW a \in Actor, Throw(a) \/ HandlerThrows(a) PROVE Discipline'
  BY <1>11 DEF Throw, HandlerThrows, BeginExit, Discipline, TypeOK, Reason
<1>12. ASSUME NEW a \in Actor, QueueCheck(a) PROVE Discipline'
  BY <1>0, <1>12 DEF QueueCheck, Discipline, TypeOK, NoCall, ivars, evars
<1>13. ASSUME NEW a \in Actor, QueuePost(a) PROVE Discipline'
  BY <1>13 DEF QueuePost, Discipline, TypeOK, NoCall, ivars, evars
<1>14. ASSUME NEW a \in Actor, QueueDone(a) PROVE Discipline'
  BY <1>0, <1>14 DEF QueueDone, Discipline, TypeOK, evars
<1>15. ASSUME NEW a \in Actor, NotifyLink(a) PROVE Discipline'
  BY <1>15 DEF NotifyLink, LockRef, Discipline, TypeOK, ivars
<1>16. ASSUME NEW a \in Actor, DropLifetime(a) PROVE Discipline'
  BY <1>16 DEF DropLifetime, LinksNotified, Discipline, TypeOK, evars
<1>17. ASSUME NEW a \in Actor, HandlerEscapes(a) PROVE Discipline'
  BY <1>17 DEF HandlerEscapes, Discipline, ivars, xvars, evars
<1>18. ASSUME NEW th \in Thread, NEW a \in Actor, Finish(th, a) PROVE Discipline'
  BY <1>0, <1>18 DEF Finish, Discipline, TypeOK, ivars
<1>19. CASE UNCHANGED vars
  BY <1>19 DEF vars, ivars, xvars, evars, Discipline
<1> QED
  BY <1>1, <1>2, <1>3, <1>4, <1>5, <1>6, <1>7, <1>8, <1>9, <1>10, <1>11, <1>12,
     <1>13, <1>14, <1>15, <1>16, <1>17, <1>18, <1>19
  DEF Next, Run, Body, Return, Proceed

\* Whatever the number of threads: the state has the declared types.
THEOREM TypeCorrect == Spec => [](TypeOK /\ Discipline)
<1>1. Init => Discipline
  <2> SUFFICES ASSUME Init, NEW a \in Actor
               PROVE  pc[a] = "idle" /\ call[a] = NoCall /\ (obj[a] = "live" => a \in lifetime)
    BY DEF Discipline
  <2> QED
    BY DEF Init
<1> QED
  BY <1>1, TypeInit, TypeStep, DisciplineStep, PTL DEF Spec

\* Whatever the number of threads: an instance that lifetime_, a lifelock, a
\* send or a spawn still refers to has not been destroyed.
THEOREM ReferencesHold == Spec => []HeldIsLive
<1>1. Init => HeldIsLive
  <2> SUFFICES ASSUME Init, NEW a \in Actor, a \notin Root PROVE ~Held(a)
    BY DEF Init, HeldIsLive
  <2>1. strand[a] = <<>> /\ Members(strand[a]) = {}
    BY DEF Init, Members
  <2>2. \A b \in Actor : call[b].to = None /\ child[b].of = None
    BY DEF Init, NoCall, NoChild
  <2> QED
    BY <2>1, <2>2, InstanceAssumption DEF Init, Held
<1> QED
  BY <1>1, TypeCorrect, HeldStep, PTL DEF Spec
-----------------------------------------------------------------------------
(***************************************************************************)
(* One executor thread.  Then only one actor is ever inside a task, so no  *)
(* handle_exit comes between a sender's check of in_shutdown and its copy  *)
(* of lifetime_: every task carries the lifelock of its instance.          *)
(***************************************************************************)
OneThread == \A s, t \in Thread : s = t

OnThread == \A a \in Actor : pc[a] # "idle" => \E th \in Thread : current[th] = a
PostIsSafe == \A a \in Actor : call[a].at = "post" => call[a].to \in lifetime
TasksAreLocked == \A a \in Actor : \A t \in Members(strand[a]) : t.lifelock = a

LEMMA OnThreadStep == TypeOK /\ OnThread /\ [Next]_vars => OnThread'
<1> SUFFICES ASSUME TypeOK, OnThread, [Next]_vars, NEW x \in Actor, pc'[x] # "idle"
             PROVE  \E th \in Thread : current'[th] = x
  BY DEF OnThread
<1>1. ASSUME NEW th \in Thread, NEW a \in Actor, RunKilled(th, a) \/ RunReceiver(th, a)
      PROVE  \E s \in Thread : current'[s] = x
  <2>1. current' = [current EXCEPT ![th] = a] /\ current[th] = None
    BY <1>1 DEF RunKilled, RunReceiver, Take
  <2>2. CASE x = a
    BY <2>1, <2>2 DEF TypeOK
  <2>3. CASE x # a
    <3>1. pc[x] # "idle"
      BY <1>1, <2>3 DEF RunKilled, RunReceiver, BeginExit, TypeOK
    <3>2. PICK s \in Thread : current[s] = x
      BY <3>1 DEF OnThread
    <3> QED
      BY <2>1, <3>2, InstanceAssumption DEF TypeOK
  <2> QED
    BY <2>2, <2>3
<1>2. ASSUME NEW th \in Thread, NEW a \in Actor, Finish(th, a)
      PROVE  \E s \in Thread : current'[s] = x
  <2>1. x # a /\ pc[x] # "idle"
    BY <1>2 DEF Finish, TypeOK
  <2>2. PICK s \in Thread : current[s] = x
    BY <2>1 DEF OnThread
  <2> QED
    BY <1>2, <2>1, <2>2 DEF Finish, TypeOK
<1>3. ASSUME NEW a \in Actor, pc[a] # "idle",
             \E p \in {"body", "exit", "finish"} : pc' = [pc EXCEPT ![a] = p],
             UNCHANGED current
      PROVE  \E s \in Thread : current'[s] = x
  BY <1>3 DEF OnThread, TypeOK
<1>4. ASSUME NEW a \in Actor, \/ ReturnOk(a) \/ Throw(a) \/ DropLifetime(a)
                              \/ HandlerThrows(a) \/ \E q \in Reason : ReturnExit(a, q)
      PROVE  \E s \in Thread : current'[s] = x
  BY <1>3, <1>4 DEF ReturnOk, Throw, DropLifetime, HandlerThrows, ReturnExit, BeginExit,
                    InBody, LinksNotified
<1>5. ASSUME UNCHANGED <<pc, current>>
      PROVE  \E s \in Thread : current'[s] = x
  BY <1>5 DEF OnThread
<1>6. ASSUME NEW a \in Actor, \/ \E th \in Thread : RunNothing(th, a) \/ RunDangling(th, a)
                              \/ Body(a) \/ Spawned(a) \/ QueueCheck(a) \/ QueuePost(a)
                              \/ QueueDone(a) \/ NotifyLink(a) \/ HandlerEscapes(a)
      PROVE  UNCHANGED <<pc, current>>
  BY <1>6 DEF RunNothing, RunDangling, Body, Receive, Trap, ObserveLinks, Send, Spawn,
              Spawned, QueueCheck, QueuePost, QueueDone, NotifyLink, HandlerEscapes, xvars
<1>7. CASE UNCHANGED vars
  BY <1>5, <1>7 DEF vars, xvars
<1> QED
  BY <1>1, <1>2, <1>4, <1>5, <1>6, <1>7 DEF Next, Run, Return, Proceed

LEMMA PostStep ==
    ASSUME OneThread
    PROVE  TypeOK /\ Discipline /\ HeldIsLive /\ OnThread /\ PostIsSafe /\ [Next]_vars
              => PostIsSafe'
<1> SUFFICES ASSUME TypeOK, Discipline, HeldIsLive, OnThread, PostIsSafe, [Next]_vars,
                    NEW x \in Actor, call'[x].at = "post"
             PROVE  call'[x].to \in lifetime'
  BY DEF PostIsSafe
<1>1. ASSUME NEW a \in Actor, QueueCheck(a) PROVE call'[x].to \in lifetime'
  <2>1. CASE x = a
    <3>1. call[a].to \notin in_shutdown /\ call'[a].to = call[a].to /\ call[a].to \in Actor
      BY <1>1, <2>1, CallTypes DEF QueueCheck, TypeOK, NoCall
    <3>2. obj[call[a].to] = "live"
      BY <3>1 DEF HeldIsLive, Held
    <3> QED
      BY <1>1, <2>1, <3>1, <3>2 DEF QueueCheck, Discipline, ivars
  <2>2. CASE x # a
    BY <1>1, <2>2 DEF QueueCheck, PostIsSafe, TypeOK, ivars
  <2> QED
    BY <2>1, <2>2
<1>2. ASSUME NEW a \in Actor, DropLifetime(a) PROVE call'[x].to \in lifetime'
  <2>1. call[x].at = "post" /\ pc[x] # "idle" /\ pc[a] # "idle" /\ call[a] = NoCall
    BY <1>2 DEF DropLifetime, LinksNotified, Discipline, NoCall
  <2>2. x = a
    BY <2>1, OneThread DEF OnThread, OneThread
  <2> QED
    BY <2>1, <2>2 DEF NoCall
<1>3. ASSUME NEW a \in Actor, NEW t, NEW m, LockRef(a, t, m), UNCHANGED lifetime
      PROVE  call'[x].to \in lifetime'
  BY <1>3 DEF LockRef, PostIsSafe, TypeOK, NoCall
<1>4. ASSUME NEW a \in Actor, QueuePost(a) \/ QueueDone(a)
      PROVE  call'[x].to \in lifetime'
  <2>0. QueuePost(a) => x # a
    <3> SUFFICES ASSUME QueuePost(a) PROVE x # a
      OBVIOUS
    <3>1. call[a] \in [to : Actor, msg : Message, at : {"check", "post", "drop"}]
      BY CallTypes DEF QueuePost
    <3>2. call'[a].at = "drop"
      BY <3>1 DEF QueuePost, TypeOK
    <3> QED
      BY <3>2
  <2>1. x # a
    BY <1>4, <2>0 DEF QueueDone, TypeOK, NoCall
  <2>2. call'[x] = call[x] /\ lifetime' = lifetime
    BY <1>4, <2>1 DEF QueuePost, QueueDone, TypeOK, ivars
  <2> QED
    BY <2>2 DEF PostIsSafe
<1>5. ASSUME UNCHANGED call, lifetime \subseteq lifetime'
      PROVE  call'[x].to \in lifetime'
  BY <1>5 DEF PostIsSafe
<1>6. ASSUME NEW a \in Actor, \/ NotifyLink(a)
                              \/ \E t \in Actor, f \in {"link", "send", "send_normal",
                                                        "send_kill"} : Send(a, t, f)
      PROVE  call'[x].to \in lifetime'
  BY <1>3, <1>6 DEF NotifyLink, Send, ivars
<1>7. ASSUME NEW a \in Actor, NEW th \in Thread, Run(th, a) \/ Finish(th, a)
      PROVE  UNCHANGED <<call, lifetime>>
  BY <1>7 DEF Run, RunNothing, RunKilled, RunReceiver, RunDangling, Finish, ivars
<1>8. ASSUME NEW a \in Actor, \/ Receive(a) \/ Trap(a) \/ ObserveLinks(a) \/ Spawned(a)
                              \/ Return(a) \/ HandlerThrows(a) \/ HandlerEscapes(a)
      PROVE  UNCHANGED <<call, lifetime>>
  BY <1>8 DEF Receive, Trap, ObserveLinks, Spawned, Return, ReturnOk, ReturnExit, Throw,
              HandlerThrows, HandlerEscapes, ivars, xvars
<1>9. ASSUME NEW a \in Actor, \E c \in Actor, linked \in BOOLEAN : Spawn(a, c, linked)
      PROVE  UNCHANGED call /\ lifetime \subseteq lifetime'
  BY <1>9 DEF Spawn
<1>10. CASE UNCHANGED vars
  BY <1>5, <1>10 DEF vars, xvars, ivars
<1> QED
  BY <1>1, <1>2, <1>4, <1>5, <1>6, <1>7, <1>8, <1>9, <1>10 DEF Next, Body, Proceed
LEMMA LockedStep ==
    TypeOK /\ PostIsSafe /\ TasksAreLocked /\ [Next]_vars => TasksAreLocked'
<1> SUFFICES ASSUME TypeOK, PostIsSafe, TasksAreLocked, [Next]_vars,
                    NEW x \in Actor, NEW t \in Members(strand'[x])
             PROVE  t.lifelock = x
  BY DEF TasksAreLocked
<1>1. ASSUME NEW a \in Actor, NEW th \in Thread, Run(th, a) PROVE t.lifelock = x
  BY <1>1, TakeHeld DEF Run, RunNothing, RunKilled, RunReceiver, RunDangling, TasksAreLocked
<1>2. ASSUME NEW a \in Actor, NEW c \in Actor, NEW linked \in BOOLEAN, Spawn(a, c, linked)
      PROVE  t.lifelock = x
  <2>1. CASE x # c
    BY <1>2, <2>1 DEF Spawn, TasksAreLocked, TypeOK
  <2>2. CASE x = c
    <3>1. strand'[x] = IF linked THEN <<LinkTask(a, c), InitTask(c)>> ELSE <<InitTask(c)>>
      BY <1>2, <2>2 DEF Spawn, TypeOK
    <3> QED
      BY <2>2, <3>1 DEF Members, LinkTask, InitTask
  <2> QED
    BY <2>1, <2>2
<1>3. ASSUME NEW a \in Actor, QueuePost(a) PROVE t.lifelock = x
  <2>1. call[a].to \in lifetime /\ call[a].msg \in Message /\ call[a].to \in Actor
    BY <1>3, CallTypes DEF QueuePost, PostIsSafe
  <2>2. CASE x = call[a].to
    <3> DEFINE e == [from |-> a, msg |-> call[a].msg, lifelock |-> call[a].to]
    <3>1. e \in Task
      BY <2>1 DEF Task
    <3>2. strand'[x] = Append(strand[x], e)
      BY <1>3, <2>1, <2>2 DEF QueuePost, TypeOK
    <3>3. Members(strand'[x]) = Members(strand[x]) \cup {e}
      BY <3>1, <3>2, MembersAppend DEF TypeOK
    <3> QED
      BY <2>2, <3>3 DEF TasksAreLocked
  <2>3. CASE x # call[a].to
    BY <1>3, <2>3 DEF QueuePost, TasksAreLocked, TypeOK
  <2> QED
    BY <2>2, <2>3
<1>4. ASSUME UNCHANGED strand PROVE t.lifelock = x
  BY <1>4 DEF TasksAreLocked
<1>5. ASSUME NEW a \in Actor, NEW q \in Actor, NEW f, Send(a, q, f) PROVE UNCHANGED strand
  BY <1>5 DEF Send
<1>6. ASSUME NEW a \in Actor, \/ Receive(a) \/ Trap(a) \/ ObserveLinks(a) \/ Spawned(a)
                              \/ Return(a) \/ QueueCheck(a) \/ QueueDone(a) \/ NotifyLink(a)
                              \/ DropLifetime(a) \/ HandlerThrows(a) \/ HandlerEscapes(a)
                              \/ \E th \in Thread : Finish(th, a)
      PROVE  UNCHANGED strand
  BY <1>6 DEF Receive, Trap, ObserveLinks, Spawned, Return, ReturnOk, ReturnExit, Throw,
              QueueCheck, QueueDone, NotifyLink, DropLifetime, HandlerThrows,
              HandlerEscapes, Finish, xvars
<1>7. CASE UNCHANGED vars
  BY <1>4, <1>7 DEF vars, xvars
<1> QED
  BY <1>1, <1>2, <1>3, <1>4, <1>5, <1>6, <1>7 DEF Next, Body, Proceed

\* With one executor thread, sending is safe: no task is left in the strand of
\* a destroyed instance (instance::queue, instance::handle_exit).
THEOREM OneThreadIsSafe == ASSUME OneThread PROVE Spec => []NoDangling
<1>1. Init => OnThread /\ PostIsSafe /\ TasksAreLocked
  <2> SUFFICES ASSUME Init, NEW a \in Actor
               PROVE  /\ pc[a] = "idle"
                      /\ call[a].at = "none"
                      /\ \A t \in Members(strand[a]) : t.lifelock = a
    BY DEF OnThread, PostIsSafe, TasksAreLocked
  <2>1. strand[a] = <<>> \/ strand[a] = <<InitTask(a)>>
    BY DEF Init
  <2>2. \A t \in Members(strand[a]) : t.lifelock = a
    BY <2>1 DEF Members, InitTask
  <2> QED
    BY <2>2 DEF Init, NoCall
<1>2. TypeOK /\ HeldIsLive /\ TasksAreLocked => NoDangling
  <2> SUFFICES ASSUME TypeOK, HeldIsLive, TasksAreLocked,
                      NEW a \in Actor, obj[a] = "destroyed", strand[a] # <<>>
               PROVE  FALSE
    BY DEF NoDangling
  <2>1. Head(strand[a]) \in Members(strand[a])
    BY DEF TypeOK, Members
  <2> QED
    BY <2>1 DEF TasksAreLocked, HeldIsLive, Held
<1> QED
  BY <1>1, <1>2, TypeCorrect, ReferencesHold, OnThreadStep, PostStep, LockedStep, PTL
  DEF Spec
=============================================================================
