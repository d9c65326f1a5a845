--------------------------- MODULE OwnThreadProofs --------------------------
(***************************************************************************)
(* The object with its own thread is destroyed only at rest, and counted   *)
(* exactly while it has work, for any number of callers.                   *)
(*                                                                         *)
(* The argument: messages in the queue have one holder at a time (a caller *)
(* that is activating, the thread's mailbox m_object, or run() itself), and*)
(* where the object is shared the holder has a reference (the caller's     *)
(* handle, m_activated, or p), so the last reference cannot go before it.  *)
(***************************************************************************)
EXTENDS OwnThread, TLAPS

Running == place \in {"run", "loop", "method"}

Types ==
    /\ sharing \in BOOLEAN
    /\ handle \in [Callers -> BOOLEAN]
    /\ calls \in [Callers -> {"idle", "share", "schedule", "joining", "done"}]
    /\ queue \in Nat /\ queue <= MaxQueue
    /\ mActivated \in BOOLEAN /\ mObject \in BOOLEAN /\ mShared \in BOOLEAN
    /\ mShutdown \in BOOLEAN /\ p \in BOOLEAN /\ held \in BOOLEAN
    /\ busy \in Nat
    /\ place \in Places
    /\ life \in {"alive", "destroying", "destroyed"}
    /\ budget \in 0..Budget

\* Somebody is responsible for the queue exactly while it has messages, ...
Holder ==
    /\ queue > 0 <=> Activating \/ mObject \/ Running
    /\ mObject => ~Running

\* ... and nobody else then.
OneCaller ==
    /\ Activating => ~mObject /\ ~Running
    /\ \A c, d \in Callers :
          calls[c] \in {"share", "schedule"} /\ calls[d] \in {"share", "schedule"}
             => c = d

\* The holder of a shared object has a reference.
HolderRefers ==
    /\ \A c \in Callers : calls[c] \in {"share", "schedule"} => handle[c]
    /\ sharing =>
          /\ \A c \in Callers : calls[c] = "schedule" => mActivated
          /\ mObject \/ place = "run" => mActivated
          /\ place \in {"loop", "method", "ran"} => p

\* What is not used is null, and a plain object refers to nothing.
Unused ==
    /\ place \notin {"loop", "method", "ran"} => ~p
    /\ held <=> place = "release"
    /\ ~sharing => ~mActivated /\ ~mShared /\ ~p /\ ~held

\* The object lives as long as it is referred to.  A plain one is destroyed
\* when nothing is counted as busy.
Ended ==
    /\ life = "alive" <=> Referenced
    /\ life # "alive" /\ ~sharing => busy = 0 /\ queue = 0
    /\ place = "dangling" => life # "alive" /\ sharing
    /\ \A c \in Callers : calls[c] = "joining" => life # "alive"

IInv == Types /\ BusyExact /\ Holder /\ OneCaller /\ HolderRefers /\ Unused /\ Ended
-----------------------------------------------------------------------------
USE DEF client, members, thread, Places, Running, Activating

LEMMA InitHolds == Init => IInv
<1> SUFFICES ASSUME Init PROVE IInv
  OBVIOUS
<1>1. Types
  <2>1. handle \in [Callers -> BOOLEAN]
    BY DEF Init
  <2>2. calls \in [Callers -> {"idle", "share", "schedule", "joining", "done"}]
    BY DEF Init
  <2>3. queue \in Nat /\ queue <= MaxQueue /\ budget \in 0..Budget /\ busy \in Nat
    BY OwnThreadAssumption DEF Init
  <2> QED
    BY <2>1, <2>2, <2>3 DEF Init, Types
<1>2. BusyExact
  BY DEF Init, BusyExact
<1>3. Holder
  BY DEF Init, Holder
<1>4. OneCaller
  BY DEF Init, OneCaller
<1>5. HolderRefers
  BY DEF Init, HolderRefers
<1>6. Unused
  BY DEF Init, Unused
<1>7. Ended
  BY OwnThreadAssumption DEF Init, Ended, Referenced
<1> QED
  BY <1>1, <1>2, <1>3, <1>4, <1>5, <1>6, <1>7 DEF IInv

LEMMA SendHolds ==
    ASSUME IInv, NEW c \in Callers, Send(c)
    PROVE  IInv'
<1>1. Types'
  BY OwnThreadAssumption DEF IInv, Types, Send
<1>2. BusyExact'
  BY DEF IInv, Types, BusyExact, Send
<1>3. Holder'
  BY DEF IInv, Types, Holder, Send
<1>4. OneCaller'
  BY DEF IInv, Holder, OneCaller, Send
<1>5. HolderRefers'
  BY DEF IInv, HolderRefers, Send
<1>6. Unused'
  BY DEF IInv, Unused, Send
<1>7. Ended'
  BY DEF IInv, Ended, Referenced, Send
<1> QED
  BY <1>1, <1>2, <1>3, <1>4, <1>5, <1>6, <1>7 DEF IInv

LEMMA ShareActivateHolds ==
    ASSUME IInv, NEW c \in Callers, ShareActivate(c)
    PROVE  IInv'
<1>1. Types'
  BY DEF IInv, Types, ShareActivate
<1>2. BusyExact'
  BY DEF IInv, BusyExact, ShareActivate
<1>3. Holder'
  BY DEF IInv, Holder, ShareActivate
<1>4. OneCaller'
  BY DEF IInv, OneCaller, ShareActivate
<1>5. HolderRefers'
  BY DEF IInv, Types, HolderRefers, ShareActivate
<1>6. Unused'
  BY DEF IInv, Unused, ShareActivate
<1>7. Ended'
  BY DEF IInv, Ended, Referenced, HolderRefers, ShareActivate
<1> QED
  BY <1>1, <1>2, <1>3, <1>4, <1>5, <1>6, <1>7 DEF IInv

LEMMA ActivateHolds ==
    ASSUME IInv, NEW c \in Callers, Activate(c)
    PROVE  IInv'
<1>1. Types'
  BY DEF IInv, Types, Activate
<1>2. BusyExact'
  BY DEF IInv, BusyExact, OneCaller, Activate
<1>3. Holder'
  BY DEF IInv, Holder, OneCaller, Activate
<1>4. OneCaller'
  BY DEF IInv, Types, OneCaller, Activate
<1>5. HolderRefers'
  BY DEF IInv, HolderRefers, Activate
<1>6. Unused'
  BY DEF IInv, Unused, Activate
<1>7. Ended'
  BY DEF IInv, Ended, Referenced, HolderRefers, Activate
<1> QED
  BY <1>1, <1>2, <1>3, <1>4, <1>5, <1>6, <1>7 DEF IInv

LEMMA DropHolds ==
    ASSUME IInv, NEW c \in Callers, Drop(c)
    PROVE  IInv'
<1>1. Types'
  BY DEF IInv, Types, Drop
<1>2. BusyExact'
  BY DEF IInv, BusyExact, Drop
<1>3. Holder'
  BY DEF IInv, Holder, Drop
<1>4. OneCaller'
  BY DEF IInv, OneCaller, Drop
<1>5. HolderRefers'
  BY DEF IInv, HolderRefers, Drop
<1>6. Unused'
  BY DEF IInv, Unused, Drop
<1>7. Ended'
  BY DEF IInv, Ended, Referenced, Drop
<1> QED
  BY <1>1, <1>2, <1>3, <1>4, <1>5, <1>6, <1>7 DEF IInv

LEMMA DestroyHolds ==
    ASSUME IInv, NEW c \in Callers, Destroy(c)
    PROVE  IInv'
<1>1. Types'
  BY DEF IInv, Types, Destroy
<1>2. BusyExact'
  BY DEF IInv, BusyExact, Destroy
<1>3. Holder'
  BY DEF IInv, Holder, Destroy
<1>4. OneCaller'
  BY DEF IInv, OneCaller, Destroy
<1>5. HolderRefers'
  BY DEF IInv, HolderRefers, Destroy
<1>6. Unused'
  BY DEF IInv, Unused, Destroy
<1>7. Ended'
  BY OwnThreadAssumption
  DEF IInv, Types, Ended, Referenced, HolderRefers, Unused, Holder, BusyExact,
      Destroy
<1> QED
  BY <1>1, <1>2, <1>3, <1>4, <1>5, <1>6, <1>7 DEF IInv

LEMMA JoinHolds ==
    ASSUME IInv, NEW c \in Callers, Join(c)
    PROVE  IInv'
<1>1. Types'
  BY DEF IInv, Types, Join
<1>2. BusyExact'
  BY DEF IInv, BusyExact, Join
<1>3. Holder'
  BY DEF IInv, Holder, Join
<1>4. OneCaller'
  BY DEF IInv, OneCaller, Join
<1>5. HolderRefers'
  BY DEF IInv, HolderRefers, Join
<1>6. Unused'
  BY DEF IInv, Unused, Join
<1>7. Ended'
  BY DEF IInv, Ended, Referenced, Join
<1> QED
  BY <1>1, <1>2, <1>3, <1>4, <1>5, <1>6, <1>7 DEF IInv

LEMMA TakeHolds ==
    ASSUME IInv, Take
    PROVE  IInv'
<1>1. Types'
  BY DEF IInv, Types, Take
<1>2. BusyExact'
  BY DEF IInv, BusyExact, Take
<1>3. Holder'
  BY DEF IInv, Holder, Take
<1>4. OneCaller'
  BY DEF IInv, OneCaller, Take
<1>5. HolderRefers'
  BY DEF IInv, HolderRefers, Take
<1>6. Unused'
  BY DEF IInv, Unused, Take
<1>7. Ended'
  BY DEF IInv, Ended, Referenced, Take
<1> QED
  BY <1>1, <1>2, <1>3, <1>4, <1>5, <1>6, <1>7 DEF IInv

LEMMA ExitHolds ==
    ASSUME IInv, Exit
    PROVE  IInv'
<1>1. Types'
  BY DEF IInv, Types, Exit
<1>2. BusyExact'
  BY DEF IInv, BusyExact, Exit
<1>3. Holder'
  BY DEF IInv, Holder, Exit
<1>4. OneCaller'
  BY DEF IInv, OneCaller, Exit
<1>5. HolderRefers'
  BY DEF IInv, HolderRefers, Exit
<1>6. Unused'
  BY DEF IInv, Unused, Exit
<1>7. Ended'
  BY DEF IInv, Ended, Referenced, Exit
<1> QED
  BY <1>1, <1>2, <1>3, <1>4, <1>5, <1>6, <1>7 DEF IInv

LEMMA DeactivateHolds ==
    ASSUME IInv, Deactivate
    PROVE  IInv'
<1>1. Types'
  BY DEF IInv, Types, Deactivate
<1>2. BusyExact'
  BY DEF IInv, BusyExact, Deactivate
<1>3. Holder'
  BY DEF IInv, Holder, Deactivate
<1>4. OneCaller'
  BY DEF IInv, OneCaller, Deactivate
<1>5. HolderRefers'
  BY DEF IInv, HolderRefers, Holder, OneCaller, Deactivate
<1>6. Unused'
  BY DEF IInv, Unused, Deactivate
<1>7. Ended'
  BY DEF IInv, Ended, Referenced, Deactivate
<1> QED
  BY <1>1, <1>2, <1>3, <1>4, <1>5, <1>6, <1>7 DEF IInv

LEMMA BeginMethodHolds ==
    ASSUME IInv, BeginMethod
    PROVE  IInv'
<1>1. Types'
  BY DEF IInv, Types, BeginMethod
<1>2. BusyExact'
  BY DEF IInv, BusyExact, BeginMethod
<1>3. Holder'
  BY DEF IInv, Holder, BeginMethod
<1>4. OneCaller'
  BY DEF IInv, OneCaller, BeginMethod
<1>5. HolderRefers'
  BY DEF IInv, HolderRefers, BeginMethod
<1>6. Unused'
  BY DEF IInv, Unused, BeginMethod
<1>7. Ended'
  BY DEF IInv, Ended, Referenced, BeginMethod
<1> QED
  BY <1>1, <1>2, <1>3, <1>4, <1>5, <1>6, <1>7 DEF IInv

LEMMA SendSelfHolds ==
    ASSUME IInv, SendSelf
    PROVE  IInv'
<1>1. Types'
  BY OwnThreadAssumption DEF IInv, Types, SendSelf
<1>2. BusyExact'
  BY DEF IInv, BusyExact, SendSelf
<1>3. Holder'
  BY DEF IInv, Types, Holder, SendSelf
<1>4. OneCaller'
  BY DEF IInv, OneCaller, SendSelf
<1>5. HolderRefers'
  BY DEF IInv, HolderRefers, SendSelf
<1>6. Unused'
  BY DEF IInv, Unused, SendSelf
<1>7. Ended'
  BY DEF IInv, Ended, Referenced, BusyExact, SendSelf
<1> QED
  BY <1>1, <1>2, <1>3, <1>4, <1>5, <1>6, <1>7 DEF IInv

LEMMA EndMethodHolds ==
    ASSUME IInv, EndMethod
    PROVE  IInv'
<1>1. Types'
  BY OwnThreadAssumption DEF IInv, Types, BusyExact, Holder, EndMethod
<1>2. BusyExact'
  BY DEF IInv, BusyExact, EndMethod
<1>3. Holder'
  BY DEF IInv, Types, Holder, OneCaller, EndMethod
<1>4. OneCaller'
  BY DEF IInv, OneCaller, EndMethod
<1>5. HolderRefers'
  BY DEF IInv, HolderRefers, EndMethod
<1>6. Unused'
  BY DEF IInv, Unused, EndMethod
<1>7. Ended'
  BY DEF IInv, Ended, Referenced, BusyExact, EndMethod
<1> QED
  BY <1>1, <1>2, <1>3, <1>4, <1>5, <1>6, <1>7 DEF IInv

LEMMA RanHolds ==
    ASSUME IInv, Ran
    PROVE  IInv'
<1>1. Types'
  BY DEF IInv, Types, Ran
<1>2. BusyExact'
  BY DEF IInv, BusyExact, Ran
<1>3. Holder'
  BY DEF IInv, Holder, Ran
<1>4. OneCaller'
  BY DEF IInv, OneCaller, Ran
<1>5. HolderRefers'
  BY DEF IInv, HolderRefers, Ran
<1>6. Unused'
  BY DEF IInv, Unused, Ran
<1>7. Ended'
  BY DEF IInv, Ended, Referenced, Unused, BusyExact, Ran
<1> QED
  BY <1>1, <1>2, <1>3, <1>4, <1>5, <1>6, <1>7 DEF IInv

LEMMA RelockHolds ==
    ASSUME IInv, Relock
    PROVE  IInv'
<1>1. Types'
  <2>1. busy' \in Nat
    BY DEF IInv, BusyExact, Relock
  <2>2. mShared' \in BOOLEAN /\ held' \in BOOLEAN /\ place' \in Places
    BY DEF IInv, Types, Relock
  <2> QED
    BY <2>1, <2>2 DEF IInv, Types, Relock
<1>2. BusyExact'
  BY DEF IInv, BusyExact, Holder, Relock
<1>3. Holder'
  BY DEF IInv, Holder, Relock
<1>4. OneCaller'
  BY DEF IInv, OneCaller, Relock
<1>5. HolderRefers'
  BY DEF IInv, HolderRefers, Relock
<1>6. Unused'
  BY DEF IInv, Unused, Relock
<1>7. Ended'
  BY DEF IInv, Ended, Referenced, Unused, BusyExact, Relock
<1> QED
  BY <1>1, <1>2, <1>3, <1>4, <1>5, <1>6, <1>7 DEF IInv

LEMMA ReleaseHolds ==
    ASSUME IInv, Release
    PROVE  IInv'
<1>1. Types'
  BY DEF IInv, Types, Release
<1>2. BusyExact'
  BY DEF IInv, BusyExact, Release
<1>3. Holder'
  BY DEF IInv, Holder, Release
<1>4. OneCaller'
  BY DEF IInv, OneCaller, Release
<1>5. HolderRefers'
  BY DEF IInv, HolderRefers, Release
<1>6. Unused'
  BY DEF IInv, Unused, Release
<1>7. Ended'
  BY DEF IInv, Ended, Referenced, Unused, Release
<1> QED
  BY <1>1, <1>2, <1>3, <1>4, <1>5, <1>6, <1>7 DEF IInv

LEMMA ExpireHolds ==
    ASSUME IInv, Expire
    PROVE  IInv'
<1>1. Types'
  BY DEF IInv, Types, Expire
<1>2. BusyExact'
  BY DEF IInv, BusyExact, Expire
<1>3. Holder'
  BY DEF IInv, Holder, Expire
<1>4. OneCaller'
  BY DEF IInv, OneCaller, Expire
<1>5. HolderRefers'
  BY DEF IInv, HolderRefers, Expire
<1>6. Unused'
  BY DEF IInv, Unused, Expire
<1>7. Ended'
  BY DEF IInv, Ended, Referenced, Expire
<1> QED
  BY <1>1, <1>2, <1>3, <1>4, <1>5, <1>6, <1>7 DEF IInv

LEMMA StutterHolds == ASSUME IInv, UNCHANGED vars PROVE IInv'
BY DEF IInv, vars, Types, BusyExact, Holder, OneCaller, HolderRefers, Unused,
       Ended, Referenced

LEMMA StepHolds ==
    ASSUME IInv, [Next]_vars
    PROVE  IInv'
<1>1. ASSUME NEW c \in Callers, Send(c) PROVE IInv'
  BY <1>1, SendHolds
<1>2. ASSUME NEW c \in Callers, ShareActivate(c) PROVE IInv'
  BY <1>2, ShareActivateHolds
<1>3. ASSUME NEW c \in Callers, Activate(c) PROVE IInv'
  BY <1>3, ActivateHolds
<1>4. ASSUME NEW c \in Callers, Drop(c) PROVE IInv'
  BY <1>4, DropHolds
<1>5. ASSUME NEW c \in Callers, Destroy(c) PROVE IInv'
  BY <1>5, DestroyHolds
<1>6. ASSUME NEW c \in Callers, Join(c) PROVE IInv'
  BY <1>6, JoinHolds
<1>7. CASE Take
  BY <1>7, TakeHolds
<1>8. CASE Exit
  BY <1>8, ExitHolds
<1>9. CASE Deactivate
  BY <1>9, DeactivateHolds
<1>10. CASE BeginMethod
  BY <1>10, BeginMethodHolds
<1>11. CASE SendSelf
  BY <1>11, SendSelfHolds
<1>12. CASE EndMethod
  BY <1>12, EndMethodHolds
<1>13. CASE Ran
  BY <1>13, RanHolds
<1>14. CASE Relock
  BY <1>14, RelockHolds
<1>15. CASE Release
  BY <1>15, ReleaseHolds
<1>16. CASE Expire
  BY <1>16, ExpireHolds
<1>17. CASE UNCHANGED vars
  BY <1>17, StutterHolds
<1> QED
  BY <1>1, <1>2, <1>3, <1>4, <1>5, <1>6, <1>7, <1>8, <1>9, <1>10, <1>11,
     <1>12, <1>13, <1>14, <1>15, <1>16, <1>17
  DEF Next, Call, ThreadStep

LEMMA IInvHolds == Spec => []IInv
<1>1. Init => IInv
  BY InitHolds
<1>2. IInv /\ [Next]_vars => IInv'
  BY StepHolds
<1> QED BY <1>1, <1>2, PTL DEF Spec

\* Safety, for any number of callers and any lengths of the queue: TypeOK.
THEOREM OwnThreadTypeCorrect == Spec => []TypeOK
<1>1. IInv => TypeOK
  BY OwnThreadAssumption DEF IInv, Types, TypeOK
<1> QED BY <1>1, IInvHolds, PTL

\* Safety: the object is destroyed with an empty queue, with its thread out of
\* run() and with no activation under way, by a caller or by its own thread.
THEOREM DestroyedQuietHolds == Spec => []DestroyedQuiet
<1>1. IInv => DestroyedQuiet
  <2> SUFFICES ASSUME IInv, life # "alive"
               PROVE  queue = 0 /\ ~mObject /\ ~Activating /\ ~Running /\ place # "ran"
    BY DEF DestroyedQuiet
  <2>1. ~Referenced
    BY DEF IInv, Ended
  <2>2. ~Activating
    BY <2>1 DEF IInv, HolderRefers, Referenced
  <2>3. CASE sharing
    BY <2>1, <2>2, <2>3 DEF IInv, HolderRefers, Holder, Referenced, Types
  <2>4. CASE ~sharing
    BY <2>2, <2>4 DEF IInv, Ended, BusyExact, Holder, Types
  <2> QED BY <2>3, <2>4
<1> QED BY <1>1, IInvHolds, PTL

\* Safety: m_busy_count has one for this object exactly while it has work, so
\* active::run waits for its thread.
THEOREM BusyExactHolds == Spec => []BusyExact
<1>1. IInv => BusyExact
  BY DEF IInv
<1> QED BY <1>1, IInvHolds, PTL
=============================================================================
