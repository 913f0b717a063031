--------------------------- MODULE OpenTaskUsers ---------------------------
(***************************************************************************)
(* opentask.cpp in users mode (-users): the task that opens a call for     *)
(* every free user, and the lists of free and retired users that the       *)
(* destructor of a call and the set_users command refill.                  *)
(* In this mode open_calls_allowed always equals users (both are assigned  *)
(* together, and "set limit" is refused), so it is not a variable.         *)
(***************************************************************************)
EXTENDS Integers, Sequences, SequencesExt

CONSTANTS MaxUsers,   \* bound on what the operator may set users to
          StartUsers, \* the argument of -users
          StopAfter,  \* stop_after (-m)
          MaxPool,    \* bound on the users the operator's changes leave in the lists
          TdmMap      \* use_tdmmap: a new call may find every circuit busy

ASSUME UsersAssumption == /\ MaxUsers \in Nat
                          /\ StartUsers \in 0..MaxUsers
                          /\ StopAfter \in Nat
                          /\ MaxPool \in Nat
                          /\ TdmMap \in BOOLEAN

UserId == 1..MaxUsers

VARIABLES users,        \* the number of calls to keep open
          lowered,      \* the operator has lowered it (kept for UserOnce)
          freeUsers,    \* the list of users without a call
          retiredUsers, \* the list of users put aside when users was lowered
          active,       \* user -> its live calls
          zombies,      \* user -> its calls that failed on creation, not yet deleted
          current_calls,\* CPT_C_CurrentCall
          total_calls,  \* CPT_C_OutgoingCallCreated
          paused,       \* the operator paused the traffic
          running,      \* the opentask is on the run queue
          instance,     \* opentask::instance is not NULL
          quitting,
          undefined     \* an element was taken from an empty list

vars == <<users, lowered, freeUsers, retiredUsers, active, zombies,
          current_calls, total_calls, paused, running, instance, quitting,
          undefined>>
pool == <<users, lowered, freeUsers, retiredUsers>>
calls == <<active, zombies, current_calls, total_calls>>

(* The types; stop_after is never exceeded, whatever the breaks of the loop *)
(* that opens calls (opentask.cpp:116).                                    *)
TypeOK == /\ users \in 0..MaxUsers
          /\ lowered \in BOOLEAN
          /\ freeUsers \in Seq(UserId)
          /\ retiredUsers \in Seq(UserId)
          /\ active \in [UserId -> Nat]
          /\ zombies \in [UserId -> Nat]
          /\ current_calls \in Nat
          /\ total_calls \in 0..StopAfter
          /\ paused \in BOOLEAN
          /\ running \in BOOLEAN
          /\ instance \in BOOLEAN
          /\ quitting \in BOOLEAN
          /\ undefined \in BOOLEAN
          /\ running => instance

Init == /\ users = StartUsers
        /\ lowered = FALSE
        /\ freeUsers = [i \in 1..StartUsers |-> i]
        /\ retiredUsers = <<>>
        /\ active = [u \in UserId |-> 0]
        /\ zombies = [u \in UserId |-> 0]
        /\ current_calls = 0
        /\ total_calls = 0
        /\ paused = FALSE
        /\ running = TRUE
        /\ instance = TRUE
        /\ quitting = FALSE
        /\ undefined = FALSE

AtLeast0(n) == IF n > 0 THEN n ELSE 0
AtMost(n, m) == IF n > m THEN m ELSE n

(* A slip: stop_after is not looked at before the calls are opened.        *)
calls_to_open_PastStop == AtLeast0(users - current_calls)

(* calls_to_open, after the clamp to stop_after. The clamp to              *)
(* open_calls_allowed = users changes nothing here.                        *)
calls_to_open ==
    AtLeast0(AtMost(AtLeast0(users - current_calls), StopAfter - total_calls))

(* run(): "if (quitting) delete this".                                     *)
RunQuitting == /\ running
               /\ quitting
               /\ instance' = FALSE
               /\ running' = FALSE
               /\ UNCHANGED <<pool, calls, paused,
                              quitting>>

(* run(): "if (paused) setPaused()"; wake() is 0, for ever.                *)
RunPaused == /\ running
             /\ ~quitting
             /\ paused
             /\ running' = FALSE
             /\ UNCHANGED <<pool, calls, paused,
                            instance, quitting>>

(* run() takes users from freeUsers without a test for emptiness: with     *)
(* fewer free users than calls to open, what happens next is undefined.    *)
RunPopsEmpty == /\ running
                /\ ~quitting
                /\ ~paused
                /\ calls_to_open > Len(freeUsers)
                /\ undefined' = TRUE
                /\ UNCHANGED <<pool, calls, paused,
                               running, instance, quitting>>

(* The last k users of the free list get a call each.                      *)
Taken(k) == SubSeq(freeUsers, Len(freeUsers) - k + 1, Len(freeUsers))

(* The loop of run() ended before its count reached zero.                  *)
StaysRunning(k) == k < calls_to_open

(* run(): open k calls, all of calls_to_open unless a millisecond goes by  *)
(* in the loop.  A call that finds every circuit busy is counted as failed *)
(* at once (init(), call.cpp:846) and lives on as a zombie with its user.  *)
(* The task sleeps when its count reached zero and stays on the run queue  *)
(* otherwise; total_calls is the count taken before the loop.              *)
RunOpens(k, busy) ==
    LET taken == Taken(k)
    IN  /\ running
        /\ ~quitting
        /\ ~paused
        /\ k \in 0..AtMost(calls_to_open, Len(freeUsers))
        /\ k = 0 => calls_to_open = 0
        /\ busy \in SUBSET (DOMAIN taken)
        /\ busy # {} => TdmMap
        /\ freeUsers' = SubSeq(freeUsers, 1, Len(freeUsers) - k)
        /\ active' = [u \in UserId |->
             active[u] + Cardinality({i \in DOMAIN taken \ busy : taken[i] = u})]
        /\ zombies' = [u \in UserId |->
             zombies[u] + Cardinality({i \in busy : taken[i] = u})]
        /\ current_calls' = current_calls + k - Cardinality(busy)
        /\ total_calls' = total_calls + k
        /\ running' = StaysRunning(k)
        /\ quitting' = (total_calls >= StopAfter)
        /\ UNCHANGED <<users, lowered, retiredUsers, paused, instance>>

(* A slip: the call that ends still counts, and users calls are too many.  *)
freeUser_CountsItself(u, current) ==
    IF current + 1 >= users
      THEN /\ retiredUsers' = <<u>> \o retiredUsers
           /\ UNCHANGED <<freeUsers, running>>
      ELSE /\ freeUsers' = <<u>> \o freeUsers
           /\ running' = instance
           /\ UNCHANGED retiredUsers

(* A slip: the task is not woken.                                          *)
freeUser_NoWake(u, current) ==
    IF current > users
      THEN /\ retiredUsers' = <<u>> \o retiredUsers
           /\ UNCHANGED <<freeUsers, running>>
      ELSE /\ freeUsers' = <<u>> \o freeUsers
           /\ UNCHANGED <<retiredUsers, running>>

(* opentask::freeUser, called by the destructor of a call when the         *)
(* statistics say that `current' calls are open.                           *)
freeUser(u, current) ==
    IF current > users
      THEN /\ retiredUsers' = <<u>> \o retiredUsers
           /\ UNCHANGED <<freeUsers, running>>
      ELSE /\ freeUsers' = <<u>> \o freeUsers
           /\ running' = instance
           /\ UNCHANGED retiredUsers

(* A call ends: terminate() computes the statistic, then deletes the call. *)
CallEnds(u) == /\ active[u] > 0
               /\ active' = [active EXCEPT ![u] = @ - 1]
               /\ current_calls' = current_calls - 1
               /\ freeUser(u, current_calls - 1)
               /\ UNCHANGED <<users, lowered, zombies, total_calls, paused, instance,
                              quitting>>

(* A zombie's run() deletes it.                                            *)
ZombieRuns(u) == /\ zombies[u] > 0
                 /\ zombies' = [zombies EXCEPT ![u] = @ - 1]
                 /\ freeUser(u, current_calls)
                 /\ UNCHANGED <<users, lowered, active, current_calls, total_calls,
                                paused, instance, quitting>>

(* A slip: the new user's number forgets the users that were added before. *)
NewUser_Stuck(i) == users + 1

(* The number of the i-th new user (from 0) when none is retired.          *)
NewUser(i) == users + i + 1

(* set_users(n) with an instance: each added user is the oldest retired    *)
(* one, or a new number, and goes to the front of the free list. Lowering  *)
(* changes users only.                                                     *)
SetUsers(n) ==
    LET added == [i \in 1..AtLeast0(n - users) |->
                    IF i <= Len(retiredUsers)
                      THEN retiredUsers[Len(retiredUsers) - i + 1]
                      ELSE NewUser(i - 1)]
    IN  /\ instance
        /\ freeUsers' = Reverse(added) \o freeUsers
        /\ retiredUsers' = SubSeq(retiredUsers, 1,
                                  AtLeast0(Len(retiredUsers) - Len(added)))
        /\ users' = n
        /\ lowered' = (lowered \/ n < users)
        /\ running' = TRUE
        /\ UNCHANGED <<calls, instance, quitting>>

(* process_key and process_set: '+', '-', "set users".                     *)
OperatorSetsUsers(n) == /\ n # users
                        /\ Len(freeUsers) + n - users <= MaxPool
                        /\ SetUsers(n)
                        /\ UNCHANGED paused

(* set_paused(true): the task sleeps; run() would have done it as well.    *)
Pause == /\ instance
         /\ ~paused
         /\ paused' = TRUE
         /\ running' = FALSE
         /\ UNCHANGED <<pool, calls, instance, quitting>>

(* set_paused(false): setRunning(), set_users(users).                      *)
Unpause == /\ instance
           /\ paused
           /\ paused' = FALSE
           /\ SetUsers(users)

(* 'q', or the main loop when stop_after calls were created.               *)
Quit == /\ ~quitting
        /\ quitting' = TRUE
        /\ UNCHANGED <<pool, calls, paused, running,
                       instance>>

(* The main loop runs every task of the run queue.                         *)
RunTask == \/ RunPopsEmpty
           \/ /\ \/ RunQuitting
                 \/ RunPaused
                 \/ \E k \in 0..MaxUsers : \E busy \in SUBSET (1..k) : RunOpens(k, busy)
              /\ UNCHANGED undefined
RunZombie(u) == ZombieRuns(u) /\ UNCHANGED undefined

Event == \/ \E u \in UserId : CallEnds(u)
         \/ \E n \in 0..MaxUsers : OperatorSetsUsers(n)
         \/ Pause
         \/ Unpause
         \/ Quit

Next == /\ ~undefined
        /\ \/ RunTask
           \/ \E u \in UserId : RunZombie(u)
           \/ Event /\ UNCHANGED undefined

(* Every task of the run queue is run by the main loop in turn.            *)
Spec == /\ Init
        /\ [][Next]_vars
        /\ WF_vars(~undefined /\ RunTask)
        /\ \A u \in UserId : WF_vars(~undefined /\ RunZombie(u))

-----------------------------------------------------------------------------
CountIn(seq, u) == Cardinality({i \in DOMAIN seq : seq[i] = u})

(* Where a user is: free, put aside, or in a call.                         *)
Places(u) == CountIn(freeUsers, u) + CountIn(retiredUsers, u)
               + active[u] + zombies[u]

(* As long as the operator only ever adds users, each is in exactly one    *)
(* place, through every order of calls that end, zombies, pauses and       *)
(* additions: no user is lost, and no two calls share its variables        *)
(* (userVarMap) and its line of a USER file.                               *)
UserOnce == ~lowered => /\ \A u \in 1..users : Places(u) = 1
                        /\ \A u \in users+1..MaxUsers : Places(u) = 0

(* "Associate a user with this call" (opentask.cpp:136) says so of all     *)
(* calls, whatever the operator does: no two calls share a user.           *)
AlwaysUserOnce == \A u \in UserId : Places(u) <= 1

(* run() takes users from freeUsers without looking whether there are any  *)
(* (opentask.cpp:139): for every call it may open there is a free user, or *)
(* else a zombie that still holds one while the statistics have forgotten  *)
(* it.                                                                     *)
Zombies == SumFunction(zombies)
PoolSufficient == instance => users - current_calls - Zombies <= Len(freeUsers)

(* "keep the number of calls constant" (sipp.cpp:436): missing calls are   *)
(* opened again, unless the operator stops the traffic or stop_after is    *)
(* reached.                                                                *)
Refilled == (current_calls < users)
              ~> (current_calls >= users \/ paused \/ quitting
                    \/ undefined \/ total_calls >= StopAfter)
=============================================================================
