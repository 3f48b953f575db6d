------------------------------ MODULE Instance ------------------------------
(***************************************************************************)
(* The actor core of thespian: struct instance of src/instance.cpp on the  *)
(* strands and the threads of src/executor_asio.cpp.                       *)
(*                                                                         *)
(* An instance owns a strand (a FIFO of tasks run one at a time, by any    *)
(* executor thread) and a strong reference to itself, lifetime_, that      *)
(* handle_exit drops.  Handles are weak.  A send locks the weak reference, *)
(* reads in_shutdown, copies lifetime_ into the task it posts, and then    *)
(* drops its own reference: in_shutdown and lifetime_ are plain fields, so *)
(* each of these is a step of its own here.  The outcome of racing the     *)
(* copy of lifetime_ against its reset is that the copy either holds the   *)
(* instance or is empty; both are reached by interleaving the two.         *)
(*                                                                         *)
(* What a receiver does is up to the user: while its body runs, an actor   *)
(* makes any API calls, at most MaxOps of them in its life, and returns    *)
(* any result.                                                             *)
(***************************************************************************)
EXTENDS Naturals, Sequences

CONSTANTS
    Actor,      \* every instance that is ever constructed
    Root,       \* those spawned by context::spawn_link before context::run
    Thread,     \* the threads inside io_context::run
    None,       \* "no actor": an empty handle, current_instance = nullptr
    Calls,      \* bound: the API calls that user code makes ...
    MaxOps      \* ... and how many of them each actor makes in its life

ASSUME InstanceAssumption ==
    /\ Root \subseteq Actor
    /\ None \notin Actor
    /\ MaxOps \in [Actor -> Nat]
    /\ Calls \subseteq {"spawn", "spawn_link", "link", "send", "send_normal",
                        "send_kill", "trap", "observe_links"}

VARIABLES
    obj,            \* is the instance constructed, destroyed?
    lifetime,       \* the actors whose lifetime_ is not empty
    in_shutdown,    \* the actors with in_shutdown set, ...
    trap_exit,      \* ... with trap_exit_ ...
    observe_links,  \* ... and with observe_links_
    receiver,       \* receiver_: the constructor's lambda, set, or empty
    exit_handlers,  \* the actors with exit_handlers_
    links,          \* links_, the newest first
    strand,         \* tasks posted and not yet started
    current,        \* current_instance of each thread
    pc,             \* where the task that an actor is running has got to
    call,           \* the send_raw an actor is in the middle of
    child,          \* the spawn an actor is in the middle of
    todo,           \* the links handle_exit has still to notify
    why,            \* the reason handle_exit was called with
    catching,       \* the actors whose run is in a catch clause
    ops,            \* API calls left
    last_exit,      \* how often ctx.last_exit was called
    crashed,        \* a destroyed instance was touched, or run threw
    peers,          \* history: links_ when handle_exit began
    seen,           \* history: whose exits the receiver was given, trapping
    parent          \* history: the actor that spawn_linked this one

ivars == <<lifetime, in_shutdown, trap_exit, observe_links, receiver,
           exit_handlers, links>>
evars == <<todo, why, catching>>
xvars == <<strand, current, pc, call, child, evars, ops>>
hvars == <<peers, seen, parent>>
vars  == <<obj, ivars, xvars, last_exit, crashed, hvars>>

(***************************************************************************)
(* Messages.  is_exit_msg and is_link_msg tell these kinds apart; null is  *)
(* what schedule() posts and user stands for everything else.  The code    *)
(* tells one reason from the others, "normal"; "error" stands for them all *)
(* (an error returned or thrown, "noreceive", whatever a user sends).      *)
(***************************************************************************)
Reason  == {"normal", "error"}
Exit(r) == [kind |-> "exit", why |-> r]
Plain(k) == [kind |-> k, why |-> "none"]
Message == {Exit(r) : r \in Reason}
           \cup {Plain(k) : k \in {"null", "link", "user"}}
Sent(f) == CASE f = "link" -> Plain("link")
             [] f = "send" -> Plain("user")
             [] f = "send_normal" -> Exit("normal")
             [] f = "send_kill" -> Exit("error")

\* What queue posts: only schedule()'s null message comes from no actor.
Task == [from : Actor, msg : Message, lifelock : Actor \cup {None}]
        \cup [from : {None}, msg : {Plain("null")}, lifelock : Actor]
NoCall == [to |-> None, msg |-> Plain("null"), at |-> "none"]
Call == {NoCall}
        \cup [to : Actor, msg : Message, at : {"check", "post", "drop"}]
NoChild == [of |-> None, linked |-> FALSE]

Members(s) == {s[i] : i \in DOMAIN s}
Abnormal(r) == r \notin {"none", "normal"}

\* Mutants of Held: a task that captures only `this`; links_ of strong handles.
HeldNoLifelock(a) ==
    \/ a \in lifetime
    \/ pc[a] # "idle"
    \/ \E b \in Actor : call[b].to = a \/ child[b].of = a
HeldByLinks(a) ==
    \/ HeldNoLifelock(a)
    \/ \E t \in Members(strand[a]) : t.lifelock = a
    \/ \E b \in Actor : a \in Members(links[b])

(***************************************************************************)
(* Who keeps the instance a in memory: lifetime_ itself, the lifelocks of  *)
(* its queued tasks, the task it is running, a send_raw that has locked    *)
(* its handle, a spawn that has not returned.                              *)
(***************************************************************************)
Held(a) ==
    \/ a \in lifetime
    \/ pc[a] # "idle"
    \/ \E t \in Members(strand[a]) : t.lifelock = a
    \/ \E b \in Actor : call[b].to = a \/ child[b].of = a

\* Mutant of NoneLeft: last_exit one instance early.
OneLeft == \A a, b \in Actor : obj[a] = "live" /\ obj[b] = "live" => a = b

NoneLeft == \A a \in Actor : obj[a] # "live"

(***************************************************************************)
(* ~instance, in the step that drops the last reference.  The context's    *)
(* active count is the number of constructed instances, and the destructor *)
(* that brings it to zero calls last_exit.                                 *)
(***************************************************************************)
Reap ==
    /\ obj' = [a \in Actor |-> IF obj[a] = "live" /\ ~Held(a)'
                               THEN "destroyed" ELSE obj[a]]
    /\ last_exit' = IF obj' # obj /\ NoneLeft' THEN last_exit + 1
                                            ELSE last_exit

-----------------------------------------------------------------------------
\* Mutant of InitTask: schedule() before lifetime_ is set.
InitTaskEarly(a) == [from |-> None, msg |-> Plain("null"), lifelock |-> None]

InitTask(a) == [from |-> None, msg |-> Plain("null"), lifelock |-> a]
LinkTask(p, a) == [from |-> p, msg |-> Plain("link"), lifelock |-> a]

\* context::spawn_link of every root, before any thread runs.
Init ==
    /\ obj = [a \in Actor |-> IF a \in Root THEN "live" ELSE "none"]
    /\ lifetime = Root
    /\ in_shutdown = {}
    /\ trap_exit = {}
    /\ observe_links = {}
    /\ receiver = [a \in Actor |-> "init"]
    /\ exit_handlers = Root
    /\ links = [a \in Actor |-> <<>>]
    /\ strand = [a \in Actor |-> IF a \in Root THEN <<InitTask(a)>> ELSE <<>>]
    /\ current = [th \in Thread |-> None]
    /\ pc = [a \in Actor |-> "idle"]
    /\ call = [a \in Actor |-> NoCall]
    /\ child = [a \in Actor |-> NoChild]
    /\ todo = [a \in Actor |-> <<>>]
    /\ why = [a \in Actor |-> "none"]
    /\ catching = {}
    /\ ops = MaxOps
    /\ last_exit = 0
    /\ crashed = FALSE
    /\ peers = [a \in Actor |-> {}]
    /\ seen = [a \in Actor |-> {}]
    /\ parent = [a \in Actor |-> None]

(***************************************************************************)
(* handle_exit up to the loop over links_.                                 *)
(***************************************************************************)
BeginExit(a, r) ==
    /\ pc' = [pc EXCEPT ![a] = "exit"]
    /\ in_shutdown' = in_shutdown \cup {a}
    /\ why' = [why EXCEPT ![a] = r]
    /\ todo' = [todo EXCEPT ![a] = links[a]]
    /\ peers' = [peers EXCEPT ![a] = Members(links[a])]

(***************************************************************************)
(* instance::run.  A thread takes the first task of an idle strand.        *)
(***************************************************************************)
Take(th, a) ==
    /\ current[th] = None
    /\ pc[a] = "idle"
    /\ strand[a] # <<>>
    /\ strand' = [strand EXCEPT ![a] = Tail(@)]

First(a) == Head(strand[a])
IsLink(a) == First(a).msg.kind = "link"
Enters(a) == a \notin in_shutdown /\ (IsLink(a) => a \in observe_links)
Kills(a) == a \notin trap_exit /\ First(a).msg.kind = "exit"

\* Mutant of AddLink: only an actor that observes its links records them.
AddLinkObserved(a) ==
    links' = IF IsLink(a) /\ a \in observe_links
             THEN [links EXCEPT ![a] = <<First(a).from>> \o @] ELSE links

AddLink(a) ==
    links' = IF IsLink(a) THEN [links EXCEPT ![a] = <<First(a).from>> \o @]
                          ELSE links

\* A link message without observe_links_, any message in shutdown, and an
\* "exit normal" that is not trapped end without the receiver being called.
RunNothing(th, a) ==
    /\ obj[a] = "live"
    /\ Take(th, a)
    /\ \/ ~Enters(a)
       \/ Kills(a) /\ First(a).msg.why = "normal"
    /\ AddLink(a)
    /\ UNCHANGED <<lifetime, in_shutdown, trap_exit, observe_links, receiver,
                   exit_handlers, current, pc, call, child, evars, ops,
                   crashed, hvars>>
    /\ Reap

\* An exit message kills an instance that does not trap.
RunKilled(th, a) ==
    /\ obj[a] = "live"
    /\ Take(th, a)
    /\ Enters(a)
    /\ Kills(a)
    /\ First(a).msg.why # "normal"
    /\ current' = [current EXCEPT ![th] = a]
    /\ BeginExit(a, First(a).msg.why)
    /\ UNCHANGED <<obj, lifetime, trap_exit, observe_links, receiver,
                   exit_handlers, links, call, child, catching, ops, last_exit,
                   crashed, seen, parent>>

\* Everything else is given to receiver_; the constructor's lambda swaps
\* receiver_ out before it calls the behaviour.
RunReceiver(th, a) ==
    /\ obj[a] = "live"
    /\ Take(th, a)
    /\ Enters(a)
    /\ ~Kills(a)
    /\ current' = [current EXCEPT ![th] = a]
    /\ AddLink(a)
    /\ pc' = [pc EXCEPT ![a] = "body"]
    /\ receiver' = [receiver EXCEPT ![a] = IF @ = "init" THEN "empty" ELSE @]
    /\ seen' = [seen EXCEPT ![a] =
          @ \cup {b \in Actor : /\ b = First(a).from
                                /\ First(a).msg.kind = "exit"
                                /\ b \in in_shutdown}]
    /\ UNCHANGED <<obj, lifetime, in_shutdown, trap_exit, observe_links,
                   exit_handlers, call, child, evars, ops, last_exit, crashed,
                   peers, parent>>

\* The task holds a raw `this`.  Without a lifelock it may start on a
\* destroyed instance: either the freed memory still reads as in_shutdown and
\* nothing happens, or the process dies.
RunDangling(th, a) ==
    /\ obj[a] = "destroyed"
    /\ Take(th, a)
    /\ crashed' \in BOOLEAN
    /\ UNCHANGED <<obj, ivars, current, pc, call, child, evars, ops, last_exit,
                   hvars>>

-----------------------------------------------------------------------------
(***************************************************************************)
(* What the body of a receiver may do.                                     *)
(***************************************************************************)
InBody(a) == pc[a] = "body" /\ call[a] = NoCall /\ child[a] = NoChild

UseOp(a, f) == f \in Calls /\ ops[a] > 0 /\ ops' = [ops EXCEPT ![a] = @ - 1]

Receive(a) ==
    /\ InBody(a)
    /\ receiver[a] # "set"
    /\ receiver' = [receiver EXCEPT ![a] = "set"]
    /\ UNCHANGED <<obj, lifetime, in_shutdown, trap_exit, observe_links,
                   exit_handlers, links, xvars, last_exit, crashed, hvars>>

Trap(a) ==
    /\ InBody(a)
    /\ UseOp(a, "trap")
    /\ trap_exit' \in {trap_exit \cup {a}, trap_exit \ {a}}
    /\ UNCHANGED <<obj, lifetime, in_shutdown, observe_links, receiver,
                   exit_handlers, links, strand, current, pc, call, child,
                   evars, last_exit, crashed, hvars>>

ObserveLinks(a) ==
    /\ InBody(a)
    /\ UseOp(a, "observe_links")
    /\ observe_links' \in {observe_links \cup {a}, observe_links \ {a}}
    /\ UNCHANGED <<obj, lifetime, in_shutdown, trap_exit, receiver,
                   exit_handlers, links, strand, current, pc, call, child,
                   evars, last_exit, crashed, hvars>>

\* Mutant of LockRef: the weak reference is not checked.
LockRefBlind(a, t, m) ==
    call' = [call EXCEPT ![a] = [to |-> t, msg |-> m, at |-> "check"]]

\* handle::send_raw locks the weak reference; if it has expired, deadsend.
LockRef(a, t, m) ==
    call' = [call EXCEPT ![a] =
        IF obj[t] = "live" THEN [to |-> t, msg |-> m, at |-> "check"]
                           ELSE NoCall]

\* handle::send of a user's message or of an exit, and instance::link.
Send(a, t, f) ==
    /\ InBody(a)
    /\ obj[t] # "none"
    /\ UseOp(a, f)
    /\ LockRef(a, t, Sent(f))
    /\ UNCHANGED <<obj, ivars, strand, current, pc, child, evars, last_exit,
                   crashed, hvars>>

\* instance::spawn, up to and including schedule(): the child is constructed,
\* the link message (if any) is queued and then the null message.
Spawn(a, c, linked) ==
    /\ InBody(a)
    /\ obj[c] = "none"
    /\ UseOp(a, IF linked THEN "spawn_link" ELSE "spawn")
    /\ obj' = [obj EXCEPT ![c] = "live"]
    /\ lifetime' = lifetime \cup {c}
    /\ strand' = [strand EXCEPT ![c] =
          IF linked THEN <<LinkTask(a, c), InitTask(c)>> ELSE <<InitTask(c)>>]
    /\ child' = [child EXCEPT ![a] = [of |-> c, linked |-> linked]]
    /\ parent' = [parent EXCEPT ![c] = IF linked THEN a ELSE None]
    /\ UNCHANGED <<in_shutdown, trap_exit, observe_links, receiver,
                   exit_handlers, links, current, pc, call, evars, last_exit,
                   crashed, peers, seen>>

\* spawn returns, dropping its reference; spawn_link then adds the child.
Spawned(a) ==
    /\ child[a] # NoChild
    /\ links' = [links EXCEPT ![a] =
          IF child[a].linked THEN <<child[a].of>> \o @ ELSE @]
    /\ child' = [child EXCEPT ![a] = NoChild]
    /\ UNCHANGED <<lifetime, in_shutdown, trap_exit, observe_links, receiver,
                   exit_handlers, strand, current, pc, call, evars, ops,
                   crashed, hvars>>
    /\ Reap

\* Mutant of ReturnOk: no noreceive.
ReturnOkAlways(a) ==
    /\ InBody(a)
    /\ pc' = [pc EXCEPT ![a] = "finish"]
    /\ UNCHANGED <<obj, ivars, strand, current, call, child, evars, ops,
                   last_exit, crashed, hvars>>

\* The behaviour or the receiver returns ok or an exit (returning ok without a
\* receiver is an exit, noreceive), or throws.
ReturnOk(a) ==
    /\ InBody(a)
    /\ receiver[a] = "set"
    /\ pc' = [pc EXCEPT ![a] = "finish"]
    /\ UNCHANGED <<obj, ivars, strand, current, call, child, evars, ops,
                   last_exit, crashed, hvars>>

ReturnExit(a, r) ==
    /\ InBody(a)
    /\ BeginExit(a, r)
    /\ UNCHANGED <<obj, lifetime, trap_exit, observe_links, receiver,
                   exit_handlers, links, strand, current, call, child,
                   catching, ops, last_exit, crashed, seen, parent>>

Throw(a) ==
    /\ InBody(a)
    /\ BeginExit(a, "error")
    /\ catching' = catching \cup {a}
    /\ UNCHANGED <<obj, lifetime, trap_exit, observe_links, receiver,
                   exit_handlers, links, strand, current, call, child, ops,
                   last_exit, crashed, seen, parent>>

-----------------------------------------------------------------------------
(***************************************************************************)
(* instance::queue, called with the target's reference locked.             *)
(***************************************************************************)
\* in_shutdown is read without a lock: if it is set the send ends as a
\* deadsend and the reference is dropped.
QueueCheck(a) ==
    /\ call[a].at = "check"
    /\ call' = [call EXCEPT ![a] =
          IF call[a].to \in in_shutdown THEN NoCall
                                        ELSE [@ EXCEPT !.at = "post"]]
    /\ UNCHANGED <<ivars, strand, current, pc, child, evars, ops, crashed,
                   hvars>>
    /\ Reap

\* The task copies lifetime_, whatever it is by now, and is posted.
QueuePost(a) ==
    /\ call[a].at = "post"
    /\ strand' = [strand EXCEPT ![call[a].to] =
          Append(@, [from |-> a, msg |-> call[a].msg,
                     lifelock |-> IF call[a].to \in lifetime
                                  THEN call[a].to ELSE None])]
    /\ call' = [call EXCEPT ![a].at = "drop"]
    /\ UNCHANGED <<obj, ivars, current, pc, child, evars, ops, last_exit,
                   crashed, hvars>>

\* send_raw returns ok and drops the reference; instance::link then adds the
\* target to links_.
QueueDone(a) ==
    /\ call[a].at = "drop"
    /\ links' = [links EXCEPT ![a] =
          IF call[a].msg.kind = "link" THEN <<call[a].to>> \o @ ELSE @]
    /\ call' = [call EXCEPT ![a] = NoCall]
    /\ UNCHANGED <<lifetime, in_shutdown, trap_exit, observe_links, receiver,
                   exit_handlers, strand, current, pc, child, evars, ops,
                   crashed, hvars>>
    /\ Reap

-----------------------------------------------------------------------------
(***************************************************************************)
(* The rest of handle_exit, and of run.                                    *)
(***************************************************************************)
\* One turn of the loop over links_.
NotifyLink(a) ==
    /\ pc[a] = "exit"
    /\ call[a] = NoCall
    /\ todo[a] # <<>>
    /\ LockRef(a, Head(todo[a]), Exit(why[a]))
    /\ todo' = [todo EXCEPT ![a] = Tail(@)]
    /\ UNCHANGED <<obj, ivars, strand, current, pc, child, why, catching, ops,
                   last_exit, crashed, hvars>>

\* Mutant of LinksNotified: the loop over links_ ends early.
SomeNotified(a) == pc[a] = "exit" /\ call[a] = NoCall

LinksNotified(a) == pc[a] = "exit" /\ call[a] = NoCall /\ todo[a] = <<>>

\* The exit handlers return (or there are none): the receivers are swapped
\* out and lifetime_ is reset.
DropLifetime(a) ==
    /\ LinksNotified(a)
    /\ exit_handlers' = exit_handlers \ {a}
    /\ receiver' = [receiver EXCEPT ![a] = "empty"]
    /\ lifetime' = lifetime \ {a}
    /\ pc' = [pc EXCEPT ![a] = "finish"]
    /\ UNCHANGED <<obj, in_shutdown, trap_exit, observe_links, links, strand,
                   current, call, child, evars, ops, last_exit, crashed,
                   hvars>>

\* An exit handler throws: run's catch clause calls handle_exit again, when
\* the handlers are gone.
HandlerThrows(a) ==
    /\ LinksNotified(a)
    /\ a \in exit_handlers
    /\ a \notin catching
    /\ exit_handlers' = exit_handlers \ {a}
    /\ catching' = catching \cup {a}
    /\ BeginExit(a, "error")
    /\ UNCHANGED <<obj, lifetime, trap_exit, observe_links, receiver, links,
                   strand, current, call, child, ops, last_exit, crashed, seen,
                   parent>>

\* If run is in a catch clause already nothing catches the exception, and it
\* leaves the executor's thread.
HandlerEscapes(a) ==
    /\ LinksNotified(a)
    /\ a \in exit_handlers
    /\ a \in catching
    /\ crashed' = TRUE
    /\ UNCHANGED <<obj, ivars, xvars, last_exit, hvars>>

\* run resets current_instance, destroys the exited receivers and returns,
\* dropping its lifelock and the task's.
Finish(th, a) ==
    /\ current[th] = a
    /\ pc[a] = "finish"
    /\ current' = [current EXCEPT ![th] = None]
    /\ pc' = [pc EXCEPT ![a] = "idle"]
    /\ catching' = catching \ {a}
    /\ UNCHANGED <<ivars, strand, call, child, todo, why, ops, crashed, hvars>>
    /\ Reap

-----------------------------------------------------------------------------
Run(th, a) ==
    \/ RunNothing(th, a)
    \/ RunKilled(th, a)
    \/ RunReceiver(th, a)
    \/ RunDangling(th, a)

Body(a) ==
    \/ Receive(a)
    \/ Trap(a)
    \/ ObserveLinks(a)
    \/ \E t \in Actor, f \in {"link", "send", "send_normal", "send_kill"} :
          Send(a, t, f)
    \/ \E c \in Actor, linked \in BOOLEAN : Spawn(a, c, linked)

\* The steps an actor takes without a choice of the user's.
Proceed(a) ==
    \/ Spawned(a)
    \/ QueueCheck(a)
    \/ QueuePost(a)
    \/ QueueDone(a)
    \/ NotifyLink(a)
    \/ DropLifetime(a)
    \/ HandlerThrows(a)
    \/ HandlerEscapes(a)
    \/ \E th \in Thread : Finish(th, a)

Return(a) == ReturnOk(a) \/ Throw(a) \/ \E r \in Reason : ReturnExit(a, r)

Next ==
    /\ ~crashed
    /\ \E a \in Actor :
          \/ \E th \in Thread : Run(th, a)
          \/ Body(a)
          \/ Return(a)
          \/ Proceed(a)

(***************************************************************************)
(* The executor's queue is first in first out, so a strand with tasks gets *)
(* a thread in the end although threads are not always free; a running     *)
(* task is not suspended, and user code returns.                           *)
(***************************************************************************)
Fairness ==
    \A a \in Actor :
        /\ SF_vars(~crashed /\ \E th \in Thread : Run(th, a))
        /\ WF_vars(~crashed /\ Proceed(a))
        /\ WF_vars(~crashed /\ Return(a))

Spec == Init /\ [][Next]_vars
FairSpec == Spec /\ Fairness

-----------------------------------------------------------------------------
TypeOK ==
    /\ obj \in [Actor -> {"none", "live", "destroyed"}]
    /\ lifetime \subseteq Actor
    /\ in_shutdown \subseteq Actor
    /\ trap_exit \subseteq Actor
    /\ observe_links \subseteq Actor
    /\ receiver \in [Actor -> {"init", "set", "empty"}]
    /\ exit_handlers \subseteq Actor
    /\ links \in [Actor -> Seq(Actor)]
    /\ strand \in [Actor -> Seq(Task)]
    /\ current \in [Thread -> Actor \cup {None}]
    /\ pc \in [Actor -> {"idle", "body", "exit", "finish"}]
    /\ call \in [Actor -> Call]
    /\ child \in [Actor -> {NoChild} \cup [of : Actor, linked : BOOLEAN]]
    /\ todo \in [Actor -> Seq(Actor)]
    /\ why \in [Actor -> Reason \cup {"none"}]
    /\ catching \subseteq Actor
    /\ ops \in [Actor -> Nat]
    /\ last_exit \in Nat
    /\ crashed \in BOOLEAN
    /\ peers \in [Actor -> SUBSET Actor]
    /\ seen \in [Actor -> SUBSET Actor]
    /\ parent \in [Actor -> Actor \cup {None}]

\* The lifelocks do their work: an instance that anything in the core still
\* refers to through a strong reference has not been destroyed (spawn, queue,
\* run and handle_exit, whose references all go through lifetime_).
HeldIsLive == \A a \in Actor : Held(a) => obj[a] = "live"

\* "Sending to an expired handle is safe and fails gracefully": no task is
\* ever left in the strand of a destroyed instance, where run would be called
\* on a dangling `this` (instance::queue, instance::handle_exit).
NoDangling == \A a \in Actor : obj[a] = "destroyed" => strand[a] = <<>>

\* b is inside the link or spawn_link that will put a in its links_.
Linking(b, a) ==
    \/ child[b].of = a /\ child[b].linked
    \/ call[b].to = a /\ call[b].msg.kind = "link"

\* A link is mutual: when b is in a's links_, a is in b's links_, or the link
\* message that will put it there is in b's strand, or b has sent its own
\* link message to a and is about to add a (run, link, spawn_link).
LinkIsMutual ==
    \A a, b \in Actor :
        b \in Members(links[a]) /\ obj[b] = "live" =>
            \/ a \in Members(links[b])
            \/ \E t \in Members(strand[b]) : t.from = a /\ t.msg.kind = "link"
            \/ Linking(b, a)

\* b has run handle_exit with a reason other than "normal", loop included.
Failed(b) == Abnormal(why[b]) /\ pc[b] # "exit"

\* a is gone or going, was given b's exit while trapping, or will be.
Told(a, b) ==
    \/ obj[a] # "live"
    \/ a \in in_shutdown
    \/ b \in seen[a]
    \/ \E t \in Members(strand[a]) :
          t.from = b /\ t.msg.kind = "exit" /\ t.msg.why # "normal"

\* handle_exit tells every actor that was in links_ when it began, although
\* the sends race with the exits of their targets.
FailureIsTold == \A b \in Actor : Failed(b) => \A a \in peers[b] : Told(a, b)

\* spawn_link supervises from the start: however early the child fails (before
\* spawn_link has even returned), its parent is told, and the other way round.
SpawnLinkSupervises ==
    \A c \in Actor :
        parent[c] # None =>
            /\ Failed(c) => Told(parent[c], c)
            /\ Failed(parent[c]) => Told(c, parent[c])

\* Every message finds a receiver: the behaviour passed to spawn runs before
\* any other message (only link messages precede schedule()'s null message),
\* and an actor that is not in shutdown does not rest without a receiver.
ReceiverReady ==
    \A a \in Actor :
        obj[a] = "live" /\ a \notin in_shutdown /\ pc[a] = "idle" =>
            \/ receiver[a] = "set"
            \/ /\ receiver[a] = "init"
               /\ \E i \in DOMAIN strand[a] :
                     /\ strand[a][i].msg.kind = "null"
                     /\ \A j \in 1..(i - 1) : strand[a][j].msg.kind = "link"

\* ~instance calls last_exit once, and only when no instance is left.
LastExitOnce ==
    /\ last_exit <= 1
    /\ last_exit = 1 => \A a \in Actor : obj[a] # "live"

\* "Actors can trap() exit signals and link() to other actors for supervision"
\* (README.md): an actor whose link() succeeded is told when the other fails.
LinkSupervises ==
    \A a, b \in Actor :
        Failed(b) /\ strand[b] = <<>> /\ b \in Members(links[a]) => Told(a, b)

\* "spawn_link ties an actor's lifetime to its parent" (README.md): a child
\* with nothing left to run does not outlive its parent.
LifetimeTied ==
    \A c \in Actor :
        /\ parent[c] # None
        /\ obj[c] = "live"
        /\ pc[c] = "idle"
        /\ strand[c] = <<>>
        => obj[parent[c]] = "live"

\* handle_exit's messages arrive: when a parent fails, its child goes down or
\* is given the exit while trapping, and the other way round.
Down(a, b) == obj[a] # "live" \/ a \in in_shutdown \/ b \in seen[a]
FailurePropagates ==
    \A a, c \in Actor :
        /\ parent[c] = a /\ Failed(a) ~> Down(c, a) \/ crashed
        /\ parent[c] = a /\ Failed(c) ~> Down(a, c) \/ crashed

\* No reference is leaked: once every actor is in shutdown, every instance is
\* destroyed and last_exit is called.
AllReleased ==
    (\A a \in Actor : obj[a] = "live" => a \in in_shutdown)
        ~> last_exit = 1 \/ crashed
=============================================================================
