------------------------------- MODULE Startup -------------------------------
(***************************************************************************)
(* Start-up of the admin service (cmd/main.go, setup.SetupApp, the        *)
(* factories and the three lazy registries), composed with the leader      *)
(* election loop of main and the leadership watcher that                   *)
(* NewAdminServiceFactory starts.                                          *)
(*                                                                         *)
(* SetupApp starts one goroutine per init function and waits for all of   *)
(* them.  Each init function calls Register* on the repository, service    *)
(* and handler registries in order; a registry field is a slot, and a     *)
(* Register* call creates the object when its slot is nil.  A repository   *)
(* constructor writes the shared, unsynchronised PrefixService maps        *)
(* (RegisterServiceTables); its window between check and assignment is    *)
(* two steps (RepoBuild, RepoAssign), so other goroutines interleave in    *)
(* it.  Service and handler slots are each registered by one init          *)
(* function and read by nobody before wg.Wait returns, so their            *)
(* registration is one step.                                               *)
(***************************************************************************)
EXTENDS Naturals, Sequences, FiniteSets

CONSTANTS
  Inits,         \* the init functions of SetupApp that the model runs
  MaxFailures    \* how often ele.BecomeLeader may fail

\* The init functions and the Register* calls each makes, in order
\* (repository slot, service slot, handler slot); two pseudo-calls stand
\* for the statements between them that other goroutines observe.
AdminSteps     == <<"admin", "sAdmin", "spawnWatcher", "hAdmin">>
AuthSteps      == <<"adminAuth", "adminUsers", "sAuth", "hAuth">>
AdminUserSteps == <<"adminUsers", "sAdminUsers", "hAdminUsers">>
RolesSteps     == <<"adminRoles", "sRoles", "hRoles">>
PolicySteps    == <<"adminPolicy", "sPolicy", "hPolicy">>
LogsSteps      == <<"adminLogs", "sLogs", "hLogs">>
CtxSteps       == <<"setContextMessages">>
OrdersSteps    == <<"orders", "sOrders", "hOrders">>
TxSteps        == <<"transactions", "sTx", "hTx">>
UsersSteps     == <<"users", "sUsers", "hUsers">>
AssetsSteps    == <<"assets", "sAssets", "hAssets">>

Calls ==
  [admin |-> AdminSteps, auth |-> AuthSteps, adminUsers |-> AdminUserSteps,
   roles |-> RolesSteps, ctx |-> CtxSteps, logs |-> LogsSteps,
   policy |-> PolicySteps, orders |-> OrdersSteps, transactions |-> TxSteps,
   users |-> UsersSteps, assets |-> AssetsSteps]

RepoSlots == {"admin", "adminAuth", "adminUsers", "adminRoles", "adminPolicy",
              "adminLogs", "orders", "transactions", "users", "assets"}
SvcSlots  == {"sAdmin", "sAuth", "sAdminUsers", "sRoles", "sPolicy", "sLogs",
              "sCtx", "sOrders", "sTx", "sUsers", "sAssets"}
HdlSlots  == {"hAdmin", "hAuth", "hAdminUsers", "hRoles", "hPolicy", "hLogs",
              "hOrders", "hTx", "hUsers", "hAssets"}
Slots     == RepoSlots \cup SvcSlots \cup HdlSlots

\* Every repository constructor but NewGORMAdminRepository registers its
\* tables with config.PrefixService.
WritesTables == RepoSlots \ {"admin"}

\* The route groups of the router controller and the handler each needs;
\* a group whose handler getter returns nil is skipped.
AdminRouteHandlers   == {"hAuth", "hAdmin", "hRoles", "hAdminUsers", "hLogs", "hPolicy"}
ServiceRouteHandlers == {"hOrders", "hUsers", "hTx", "hAssets"}

\* NewRouterController sets up every route group; a group is mounted when
\* the handler it gets from the registry is non-nil.
Mount(s) == {h \in AdminRouteHandlers \cup ServiceRouteHandlers : s[h]}

VARIABLES
  pc,          \* pc[g]: index of the call init function g is making
  building,    \* building[g]: g is inside a repository constructor
  slot,        \* slot[s]: the registry field s is non-nil
  writers,     \* goroutines inside RegisterServiceTables
  ctxMsgs,     \* serviceFactory.contextMessages is non-nil
  authCtx,     \* the contextMessages the auth repository was built with is non-nil
  main,        \* "setup" (in SetupApp) or "serving" (routes mounted)
  mounted,     \* route groups whose handlers the router found
  chan,        \* config.IsLeader, a channel of capacity 1
  elect,       \* the election goroutine of main
  failures,    \* failed BecomeLeader calls
  won,         \* BecomeLeader has succeeded
  watcher,     \* the leadership watcher goroutine: "none" or "running"
  svcLeader,   \* adminService.isLeader
  idle,        \* an idle-session timer of the auth repository has fired
  crash        \* "none", or why the process stopped

setupVars  == <<pc, building, slot, writers, ctxMsgs, authCtx>>
leaderVars == <<chan, elect, failures, won, watcher, svcLeader>>
vars == <<setupVars, leaderVars, main, mounted, idle, crash>>

Running == crash = "none"

\* The call g is making; defined while pc[g] <= Len(Calls[g]).
Calling(g) == Calls[g][pc[g]]
InCall(g)  == pc[g] <= Len(Calls[g])

Init ==
  /\ pc = [g \in Inits |-> 1]
  /\ building = [g \in Inits |-> FALSE]
  /\ slot = [s \in Slots |-> FALSE]
  /\ writers = {}
  /\ ctxMsgs = FALSE
  /\ authCtx = FALSE
  /\ main = "setup"
  /\ mounted = {}
  /\ chan = <<FALSE>>
  /\ elect = "recv"
  /\ failures = 0
  /\ won = FALSE
  /\ watcher = "none"
  /\ svcLeader = FALSE
  /\ idle = FALSE
  /\ crash = "none"

-----------------------------------------------------------------------------
(* The repository registry.                                                *)

\* Register*Repository finds its slot set and returns it.
RepoFound(g) ==
  /\ Running /\ InCall(g) /\ Calling(g) \in RepoSlots /\ ~building[g]
  /\ slot[Calling(g)]
  /\ pc' = [pc EXCEPT ![g] = @ + 1]
  /\ UNCHANGED <<building, slot, writers, ctxMsgs, authCtx, leaderVars, main, mounted, idle, crash>>

\* Register*Repository finds its slot nil and calls the constructor, which
\* migrates its tables and starts writing the PrefixService maps.  The
\* auth repository is passed serviceFactory.contextMessages as it is now.
\* Two goroutines writing a Go map at once is a data race: the runtime
\* may abort the process ("concurrent map writes") or miss it.
RepoBuild(g) ==
  /\ Running /\ InCall(g) /\ Calling(g) \in RepoSlots /\ ~building[g]
  /\ ~slot[Calling(g)]
  /\ building' = [building EXCEPT ![g] = TRUE]
  /\ authCtx' = IF Calling(g) = "adminAuth" THEN ctxMsgs ELSE authCtx
  /\ writers' = IF Calling(g) \in WritesTables THEN writers \cup {g} ELSE writers
  /\ \E detected \in BOOLEAN :
       crash' = IF Calling(g) \in WritesTables /\ writers # {} /\ detected
                THEN "concurrent map writes" ELSE crash
  /\ UNCHANGED <<pc, slot, ctxMsgs, leaderVars, main, mounted, idle>>

\* RegisterAdminPolicyRepository checks the logs slot, not its own, after
\* construction; the error it returns makes the factory call logger.Fatal.
PolicyCheckFails(s) == s = "adminPolicy" /\ ~slot["adminLogs"]

\* The constructor returns; the registry stores it in the slot (whatever
\* another goroutine stored there meanwhile) and returns the slot.
RepoAssign(g) ==
  /\ Running /\ building[g]
  /\ building' = [building EXCEPT ![g] = FALSE]
  /\ writers' = writers \ {g}
  /\ slot' = [slot EXCEPT ![Calling(g)] = TRUE]
  /\ IF PolicyCheckFails(Calling(g))
       THEN crash' = "fatal" /\ UNCHANGED pc
       ELSE pc' = [pc EXCEPT ![g] = @ + 1] /\ UNCHANGED crash
  /\ UNCHANGED <<ctxMsgs, authCtx, leaderVars, main, mounted, idle>>

-----------------------------------------------------------------------------
(* The service and handler registries and the statements between calls.    *)

RegisterService(g) ==
  /\ Running /\ InCall(g) /\ Calling(g) \in SvcSlots
  /\ slot' = [slot EXCEPT ![Calling(g)] = TRUE]
  /\ pc' = [pc EXCEPT ![g] = @ + 1]
  /\ UNCHANGED <<building, writers, ctxMsgs, authCtx, leaderVars, main, mounted, idle, crash>>

RegisterHandler(g) ==
  /\ Running /\ InCall(g) /\ Calling(g) \in HdlSlots
  /\ slot' = [slot EXCEPT ![Calling(g)] = TRUE]
  /\ pc' = [pc EXCEPT ![g] = @ + 1]
  /\ UNCHANGED <<building, writers, ctxMsgs, authCtx, leaderVars, main, mounted, idle, crash>>

\* NewAdminContextMessageService: RegisterAdminContextMessageService, then
\* f.contextMessages = service.  Nothing reads the service slot during
\* setup, so the two are one step.
SetContextMessages(g) ==
  /\ Running /\ InCall(g) /\ Calling(g) = "setContextMessages"
  /\ slot' = [slot EXCEPT !["sCtx"] = TRUE]
  /\ ctxMsgs' = TRUE
  /\ pc' = [pc EXCEPT ![g] = @ + 1]
  /\ UNCHANGED <<building, writers, authCtx, leaderVars, main, mounted, idle, crash>>

\* NewAdminServiceFactory starts the goroutine ranging over config.IsLeader.
SpawnWatcher(g) ==
  /\ Running /\ InCall(g) /\ Calling(g) = "spawnWatcher"
  /\ watcher' = "running"
  /\ pc' = [pc EXCEPT ![g] = @ + 1]
  /\ UNCHANGED <<building, slot, writers, ctxMsgs, authCtx, chan, elect, failures, won, svcLeader, main, mounted, idle, crash>>

\* wg.Wait returns; main builds the router controller, whose route groups
\* each get their handler from the registry and skip the group when nil.
RouterUp ==
  /\ Running /\ main = "setup"
  /\ \A g \in Inits : ~InCall(g)
  /\ main' = "serving"
  /\ mounted' = Mount(slot)
  /\ UNCHANGED <<setupVars, leaderVars, idle, crash>>

\* A signed-in admin stays idle: the session timer calls
\* a.contextMessage.SetContextualMessage, a nil interface if the auth
\* repository was built before f.contextMessages was set.
IdleTimeout ==
  /\ Running /\ main = "serving" /\ slot["adminAuth"] /\ ~idle
  /\ idle' = TRUE
  /\ crash' = IF authCtx THEN crash ELSE "nil dereference"
  /\ UNCHANGED <<setupVars, leaderVars, main, mounted>>

-----------------------------------------------------------------------------
(* The election goroutine of main and the watcher: both receive from      *)
(* config.IsLeader.                                                         *)

ElectRecv ==
  /\ Running /\ elect = "recv" /\ chan # <<>>
  /\ chan' = Tail(chan)
  /\ elect' = IF Head(chan) THEN "refresh" ELSE "campaign"
  /\ UNCHANGED <<failures, won, watcher, svcLeader, setupVars, main, mounted, idle, crash>>

\* Mutant: the error of BecomeLeader is ignored and "true" is sent.
CampaignIgnoresError ==
  /\ Running /\ elect = "campaign"
  /\ \/ won' = TRUE /\ elect' = "sendTrue" /\ UNCHANGED failures
     \/ failures < MaxFailures /\ failures' = failures + 1
        /\ elect' = "sendTrue" /\ UNCHANGED won
  /\ UNCHANGED <<chan, watcher, svcLeader, setupVars, main, mounted, idle, crash>>

\* ele.BecomeLeader succeeds, or fails (at most MaxFailures times).
Campaign ==
  /\ Running /\ elect = "campaign"
  /\ \/ won' = TRUE /\ elect' = "sendTrue" /\ UNCHANGED failures
     \/ failures < MaxFailures /\ failures' = failures + 1
        /\ elect' = "sendFalse" /\ UNCHANGED won
  /\ UNCHANGED <<chan, watcher, svcLeader, setupVars, main, mounted, idle, crash>>

\* config.IsLeader <- true (then return) or <- false.
ElectSend ==
  /\ Running /\ elect \in {"sendTrue", "sendFalse"} /\ Len(chan) < 1
  /\ chan' = Append(chan, elect = "sendTrue")
  /\ elect' = IF elect = "sendTrue" THEN "done" ELSE "refresh"
  /\ UNCHANGED <<failures, won, watcher, svcLeader, setupVars, main, mounted, idle, crash>>

\* SetNodeReadiness, CountReadyNodes, time.Sleep, then receive again.
Refresh ==
  /\ Running /\ elect = "refresh"
  /\ elect' = "recv"
  /\ UNCHANGED <<chan, failures, won, watcher, svcLeader, setupVars, main, mounted, idle, crash>>

\* The watcher: service.SetIsLeader(ctx, leaderStatus).
WatcherRecv ==
  /\ Running /\ watcher = "running" /\ chan # <<>>
  /\ svcLeader' = Head(chan)
  /\ chan' = Tail(chan)
  /\ UNCHANGED <<elect, failures, won, watcher, setupVars, main, mounted, idle, crash>>

-----------------------------------------------------------------------------
InitStep(g) ==
  \/ RepoFound(g) \/ RepoBuild(g) \/ RepoAssign(g)
  \/ RegisterService(g) \/ RegisterHandler(g)
  \/ SetContextMessages(g) \/ SpawnWatcher(g)

Election == ElectRecv \/ Campaign \/ ElectSend \/ Refresh

Next ==
  \/ \E g \in Inits : InitStep(g)
  \/ RouterUp \/ IdleTimeout
  \/ Election \/ WatcherRecv

\* Every goroutine runs when it can; the admin's idle timeout is left to
\* the environment.
Fairness ==
  /\ \A g \in Inits : WF_vars(InitStep(g))
  /\ WF_vars(RouterUp)
  /\ WF_vars(Election)
  /\ WF_vars(WatcherRecv)

Spec == Init /\ [][Next]_vars /\ Fairness

-----------------------------------------------------------------------------
(* Properties.                                                             *)

\* The admin service believes it leads only if ele.BecomeLeader succeeded:
\* no step turns adminService.isLeader on before that.
LeaderOnlyAfterWin == [][~svcLeader /\ svcLeader' => won']_<<svcLeader, won>>

\* The process never aborts: no logger.Fatal from a registry error, no
\* concurrent map write detected by the runtime, no nil dereference in
\* the idle-session timer.
ProcessNeverAborts == crash = "none"

\* The admin service eventually learns that this node leads: the election
\* loop keeps campaigning until BecomeLeader succeeds, and its "true"
\* reaches the watcher.
LeaderEventuallyKnown == <>svcLeader
=============================================================================
