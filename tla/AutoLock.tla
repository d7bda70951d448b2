------------------------------ MODULE AutoLock ------------------------------
(***************************************************************************)
(* The auto-lock of a tab: the preference, the lock screen, and the idle   *)
(* timer, with the two things that restart it, the user and the session.   *)
(*                                                                         *)
(* Time passes in ticks of the access token's lifetime; the idle timer     *)
(* runs for IdleTicks of them. What is due at a tick happens in it. The    *)
(* effect of useAutoLockWatcher is one step with the session change that   *)
(* runs it.                                                                *)
(***************************************************************************)
EXTENDS Integers

CONSTANT IdleTicks  \* AUTO_LOCK_IDLE_MS, in lifetimes of an access token

ASSUME AutoLockAssumption == IdleTicks \in Nat \ {0}

VARIABLES
  enabled,   \* the preference
  locked,    \* whether the lock screen covers the app
  timer,     \* what is left of the idle timer; 0: none runs
  signedIn,  \* whether there is a session
  spent,     \* whether its access token has expired
  polling,   \* whether the page makes requests on a timer of its own
  guess,     \* the password typed in the lock screen, while it is checked
  idle,      \* history: ticks since the user touched the app
  excused    \* history: since then the timer was disturbed, or never armed

lockVars == <<enabled, locked, timer, signedIn, spent, polling, guess, idle, excused>>

AutoLockTypeOK ==
  /\ enabled \in BOOLEAN /\ locked \in BOOLEAN
  /\ timer \in 0 .. IdleTicks
  /\ signedIn \in BOOLEAN /\ spent \in BOOLEAN /\ polling \in BOOLEAN
  /\ guess \in {"none", "right", "wrong"}
  /\ idle \in 0 .. IdleTicks + 1 /\ excused \in BOOLEAN

AutoLockInit ==
  /\ enabled \in BOOLEAN
  /\ locked = FALSE /\ timer = 0
  /\ signedIn = FALSE /\ spent = FALSE /\ polling = FALSE
  /\ guess = "none" /\ idle = 0 /\ excused = FALSE

(* Mutant: only a timer that runs is started again.                        *)
ResetRunningTimer == timer' = IF enabled /\ ~locked /\ timer # 0 THEN IdleTicks ELSE 0

ResetIdleTimer == timer' = IF enabled /\ ~locked THEN IdleTicks ELSE 0

(* The user touches the app, and may move to another page by it.           *)
Touch ==
  /\ signedIn
  /\ ResetIdleTimer
  /\ polling' \in BOOLEAN
  /\ idle' = 0 /\ excused' = FALSE
  /\ UNCHANGED <<enabled, locked, signedIn, spent, guess>>

(* The switch of SecurityCard: the listener of the click's mousedown comes *)
(* before the preference changes.                                          *)
SetAutoLockEnabled ==
  /\ signedIn /\ ~locked /\ ~polling
  /\ ResetIdleTimer
  /\ enabled' = ~enabled
  /\ idle' = 0 /\ excused' = ~enabled
  /\ UNCHANGED <<locked, signedIn, spent, polling, guess>>

(* A session begins: the watcher starts, and its timer.                    *)
StartWatcher ==
  /\ ~signedIn
  /\ signedIn' = TRUE /\ spent' = FALSE
  /\ ResetIdleTimer
  /\ polling' = TRUE
  /\ idle' = 0 /\ excused' = FALSE
  /\ UNCHANGED <<enabled, locked, guess>>

(* Logged out, from the lock screen or not: unlockNow.                     *)
StopWatcher ==
  /\ signedIn
  /\ signedIn' = FALSE /\ spent' = FALSE
  /\ timer' = 0 /\ locked' = FALSE
  /\ guess' = "none"
  /\ UNCHANGED <<enabled, polling, idle, excused>>

(* A request of the page finds the token expired: tryRefresh sets a new    *)
(* session, whose effect restarts the watcher, whoever is at the keyboard. *)
RenewSession ==
  /\ signedIn /\ spent /\ polling
  /\ spent' = FALSE
  /\ ResetIdleTimer
  /\ excused' = (excused \/ idle # 0)
  /\ UNCHANGED <<enabled, locked, signedIn, polling, guess, idle>>

-----------------------------------------------------------------------------
LockNow == locked' = (locked \/ enabled)

(* A lifetime of the token goes by; a timer that runs out locks.           *)
PassTime ==
  /\ signedIn /\ ~(spent /\ polling)
  /\ spent' = TRUE
  /\ idle' = IF idle > IdleTicks THEN idle ELSE idle + 1
  /\ timer' = IF timer = 0 THEN 0 ELSE timer - 1
  /\ IF timer = 1 THEN LockNow ELSE UNCHANGED locked
  /\ UNCHANGED <<enabled, signedIn, polling, guess, excused>>

SubmitPassword ==
  /\ locked /\ guess = "none"
  /\ guess' \in {"right", "wrong"}
  /\ ResetIdleTimer
  /\ idle' = 0 /\ excused' = FALSE
  /\ UNCHANGED <<enabled, locked, signedIn, spent, polling>>

(* verifyPassword answers. Unlocking arms no timer.                        *)
Unlock ==
  /\ guess # "none"
  /\ locked' = (locked /\ guess = "wrong")
  /\ guess' = "none"
  /\ excused' = (excused \/ guess = "right")
  /\ UNCHANGED <<enabled, timer, signedIn, spent, polling, idle>>

AutoLockNext ==
  \/ Touch \/ SetAutoLockEnabled \/ StartWatcher \/ StopWatcher
  \/ RenewSession \/ PassTime \/ SubmitPassword \/ Unlock

AutoLockSpec == AutoLockInit /\ [][AutoLockNext]_lockVars

-----------------------------------------------------------------------------

(* An app untouched for longer than the idle time is locked, if nothing    *)
(* disturbed the timer since the last touch, which was neither the switch  *)
(* nor an unlock: neither of these starts a timer, and a request a page    *)
(* makes by itself renews the session, which restarts it (constants.ts:62  *)
(* promises the lock without these exceptions).                            *)
LocksUnlessDisturbed == enabled /\ signedIn /\ idle > IdleTicks /\ ~excused => locked

(* The lock screen goes away by the right password, by the end of the      *)
(* session, and by nothing else ("never on its own say-so").               *)
OnlyPasswordUnlocks == [][locked /\ ~locked' => guess = "right" \/ ~signedIn']_lockVars

(* No lock screen outlives the session it protects, so none can cover the  *)
(* login page, however the session ended.                                  *)
NoLockWithoutSession == locked => signedIn /\ enabled
=============================================================================
