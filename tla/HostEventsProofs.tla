--------------------------- MODULE HostEventsProofs ---------------------------
(***************************************************************************)
(* Theorems about the parts of MCHostEvents, for every value of their      *)
(* constants: any workers, pools and sweeps, any SNS messages, pull        *)
(* requests, reviews and recoveries, any repositories and requests.        *)
(***************************************************************************)
EXTENDS MCHostEvents, FiniteSetTheorems, TLAPS

hostVars == <<part, vars, awsVars, hookVars, textVars, sweepVars>>

(* A step of the host events is a step of the part explored, or changes    *)
(* none of the variables.                                                  *)
LEMMA PartSteps ==
    ASSUME [HostNext]_hostVars
    PROVE  /\ part' = part
           /\ part = "onboarding" => Next \/ UNCHANGED vars
           /\ part = "codecommit" => Aws!Next \/ UNCHANGED awsVars
           /\ part = "sweep" => Sweep!Next \/ UNCHANGED sweepVars
  <1>1. CASE HostNext
    BY <1>1 DEF HostNext
  <1>2. CASE UNCHANGED hostVars
    BY <1>2 DEF hostVars
  <1> QED
    BY <1>1, <1>2

(* The modules count alike.                                                *)
LEMMA SameCardinality ==
    ASSUME NEW S
    PROVE  Sweep!Cardinality(S) = Cardinality(S) /\ Aws!Cardinality(S) = Cardinality(S)
  BY DEF Sweep!Cardinality, Aws!Cardinality, Cardinality

-----------------------------------------------------------------------------
(* The sweeps. The inductive invariant: a worker that deletes has the lock *)
(* on a session of its own unless that session was closed under it; a lock *)
(* that its worker does not use, or that its session was granted more than *)
(* once, was missed by an unlock.                                          *)

Progress == {"idle", "acquire", "delete", "release"}
Held == [session : Sweep!Sessions, n : Nat \ {0}]

SweepTypeOK ==
    /\ tick \in [Workers -> [Tasks -> Progress]]
    /\ lock \in [Tasks -> Held \cup {None}]
    /\ leaked \subseteq Sweep!Sessions \X Tasks

Elected(w, t) == lock[t] # None /\ lock[t].session \in Sweep!Of(w)

Accounted(t) ==
    lock[t] # None /\ (lock[t].n > 1 \/ ~Sweep!Deletes(lock[t].session[1], t))
        => <<lock[t].session, t>> \in leaked

SweepInv ==
    /\ SweepTypeOK
    /\ \A w \in Workers, t \in Tasks : Sweep!Deletes(w, t) => Elected(w, t) \/ t \in dropped
    /\ \A t \in Tasks : Accounted(t)

(* The sessions of two workers differ, and a session names its worker.     *)
LEMMA SessionOwner ==
    ASSUME NEW s \in Sweep!Sessions, NEW w \in Workers
    PROVE  s[1] \in Workers /\ (s \in Sweep!Of(w) <=> s[1] = w)
  BY DEF Sweep!Sessions, Sweep!Of

(* Setting the progress of one timer leaves the others alone.              *)
LEMMA TickEffect ==
    ASSUME SweepTypeOK, NEW w \in Workers, NEW t \in Tasks, NEW pc \in Progress,
           Sweep!Goto(w, t, pc)
    PROVE  /\ tick' \in [Workers -> [Tasks -> Progress]]
           /\ tick'[w][t] = pc
           /\ \A v \in Workers, u \in Tasks : <<v, u>> # <<w, t>> => tick'[v][u] = tick[v][u]
  <1>1. tick' = [tick EXCEPT ![w] = [tick[w] EXCEPT ![t] = pc]]
    BY DEF Sweep!Goto
  <1>2. [tick[w] EXCEPT ![t] = pc] \in [Tasks -> Progress]
    BY DEF SweepTypeOK
  <1>3. tick' \in [Workers -> [Tasks -> Progress]]
    BY <1>1, <1>2 DEF SweepTypeOK
  <1>4. tick'[w][t] = pc
    BY <1>1 DEF SweepTypeOK
  <1>5. \A v \in Workers, u \in Tasks : <<v, u>> # <<w, t>> => tick'[v][u] = tick[v][u]
    BY <1>1 DEF SweepTypeOK
  <1> QED
    BY <1>3, <1>4, <1>5

(* Every step of a sweep preserves SweepInv.                               *)
LEMMA SweepStep == SweepInv /\ (Sweep!Next \/ UNCHANGED sweepVars) => SweepInv'
  <1> SUFFICES ASSUME SweepInv, Sweep!Next \/ UNCHANGED sweepVars
               PROVE  SweepInv'
    OBVIOUS
  <1>0. /\ SweepTypeOK
        /\ \A w \in Workers, t \in Tasks : Sweep!Deletes(w, t) => Elected(w, t) \/ t \in dropped
        /\ \A t \in Tasks : Accounted(t)
    BY DEF SweepInv
  <1>s. \A t \in Tasks : lock[t] # None =>
          /\ lock[t] \in Held /\ lock[t].session \in Sweep!Sessions /\ lock[t].n \in Nat \ {0}
          /\ lock[t].session[1] \in Workers
          /\ \A w \in Workers : lock[t].session \in Sweep!Of(w) <=> lock[t].session[1] = w
    <2> TAKE t \in Tasks
    <2> HAVE lock[t] # None
    <2>1. lock[t] \in Held
      BY <1>0 DEF SweepTypeOK
    <2>2. lock[t].session \in Sweep!Sessions /\ lock[t].n \in Nat \ {0}
      BY <2>1 DEF Held
    <2>3. lock[t].session[1] \in Workers
      BY <2>2 DEF Sweep!Sessions
    <2> QED
      BY <2>1, <2>2, <2>3, SessionOwner
  \* A step of a timer that leaves the locks alone and does not start or end a delete.
  <1>a. ASSUME NEW w \in Workers, NEW t \in Tasks, NEW pc \in Progress, Sweep!Goto(w, t, pc),
               tick[w][t] \in {"delete", "release"} <=> pc \in {"delete", "release"},
               UNCHANGED <<lock, leaked, dropped>>
        PROVE  SweepInv'
    <2>1. /\ tick' \in [Workers -> [Tasks -> Progress]] /\ tick'[w][t] = pc
          /\ \A v \in Workers, u \in Tasks : <<v, u>> # <<w, t>> => tick'[v][u] = tick[v][u]
      BY <1>0, <1>a, TickEffect
    <2>2. \A v \in Workers, u \in Tasks : Sweep!Deletes(v, u)' <=> Sweep!Deletes(v, u)
      BY <1>a, <2>1 DEF Sweep!Deletes
    <2>3. \A u \in Tasks : Accounted(u)'
      BY <1>0, <1>a, <1>s, <2>2 DEF Accounted
    <2>4. \A v \in Workers, u \in Tasks : Elected(v, u)' <=> Elected(v, u)
      BY <1>a DEF Elected
    <2> QED
      BY <1>0, <1>a, <2>1, <2>2, <2>3, <2>4 DEF SweepInv, SweepTypeOK
  <1>1. ASSUME NEW w \in Workers, NEW t \in Tasks, Sweep!schedule(w, t) \/ Sweep!delete(w, t)
        PROVE  SweepInv'
    BY <1>1, <1>a DEF Sweep!schedule, Sweep!delete, Sweep!Idle, Progress
  <1>2. ASSUME NEW w \in Workers, Sweep!stop(w)
        PROVE  SweepInv'
    BY <1>0, <1>2 DEF Sweep!stop, SweepInv, SweepTypeOK, Accounted, Elected, Sweep!Deletes
  <1>3. ASSUME NEW w \in Workers, NEW t \in Tasks, Sweep!tryAcquireLock(w, t)
        PROVE  SweepInv'
    <2>1. PICK s \in Sweep!Of(w) :
             IF Sweep!Granted(s, t) # None
             THEN lock' = [lock EXCEPT ![t] = Sweep!Granted(s, t)] /\ Sweep!Goto(w, t, "delete")
             ELSE Sweep!Goto(w, t, "idle") /\ UNCHANGED lock
      BY <1>3 DEF Sweep!tryAcquireLock, Sweep!Idle
    <2>2. tick[w][t] = "acquire" /\ UNCHANGED <<leaked, dropped>>
      BY <1>3 DEF Sweep!tryAcquireLock
    <2>3. CASE Sweep!Granted(s, t) = None
      BY <1>a, <2>1, <2>2, <2>3 DEF Progress
    <2>4. CASE Sweep!Granted(s, t) # None
      <3>1. lock' = [lock EXCEPT ![t] = Sweep!Granted(s, t)] /\ Sweep!Goto(w, t, "delete")
        BY <2>1, <2>4
      <3>2. s \in Sweep!Sessions /\ s[1] = w
        BY DEF Sweep!Of, Sweep!Sessions
      <3>3. /\ tick' \in [Workers -> [Tasks -> Progress]] /\ tick'[w][t] = "delete"
            /\ \A v \in Workers, u \in Tasks : <<v, u>> # <<w, t>> => tick'[v][u] = tick[v][u]
        BY <1>0, <3>1, TickEffect DEF Progress
      <3>4. /\ lock'[t] = Sweep!Granted(s, t)
            /\ \A u \in Tasks \ {t} : lock'[u] = lock[u]
        BY <1>0, <3>1 DEF SweepTypeOK
      <3>5. /\ lock'[t] \in Held /\ lock'[t].session = s
            /\ lock[t] = None => lock'[t].n = 1
            /\ lock[t] # None => lock[t].session = s
        <4>1. CASE lock[t] = None
          BY <3>2, <3>4, <4>1 DEF Sweep!Granted, Held
        <4>2. CASE lock[t] # None
          BY <1>s, <2>4, <3>2, <3>4, <4>2 DEF Sweep!Granted, Held
        <4> QED
          BY <4>1, <4>2
      <3>6. SweepTypeOK'
        BY <1>0, <2>2, <3>1, <3>3, <3>4, <3>5 DEF SweepTypeOK
      <3>7. ASSUME NEW v \in Workers, NEW u \in Tasks, Sweep!Deletes(v, u)'
            PROVE  Elected(v, u)' \/ u \in dropped'
        <4>1. CASE u # t
          <5>1. Sweep!Deletes(v, u)
            BY <3>3, <3>7, <4>1 DEF Sweep!Deletes
          <5> QED
            BY <1>0, <2>2, <3>4, <4>1, <5>1 DEF Elected
        <4>2. CASE u = t /\ v = w
          BY <2>4, <3>4, <3>5, <4>2 DEF Elected
        <4>3. CASE u = t /\ v # w
          <5>1. Sweep!Deletes(v, u)
            BY <3>3, <3>7, <4>3 DEF Sweep!Deletes
          <5>2. ~Elected(v, u)
            BY <1>s, <3>2, <3>5, <4>3 DEF Elected
          <5> QED
            BY <1>0, <2>2, <5>1, <5>2
        <4> QED
          BY <4>1, <4>2, <4>3
      <3>8. ASSUME NEW u \in Tasks
            PROVE  Accounted(u)'
        <4>1. CASE u # t
          BY <1>0, <1>s, <2>2, <3>3, <3>4, <4>1 DEF Accounted, Sweep!Deletes
        <4>2. CASE u = t /\ lock[t] = None
          BY <3>2, <3>3, <3>5, <4>2 DEF Accounted, Sweep!Deletes
        <4>3. CASE u = t /\ lock[t] # None
          <5>1. <<s, t>> \in leaked
            BY <1>0, <2>2, <3>2, <3>5, <4>3 DEF Accounted, Sweep!Deletes
          <5> QED
            BY <2>2, <3>5, <4>3, <5>1 DEF Accounted
        <4> QED
          BY <4>1, <4>2, <4>3
      <3> QED
        BY <3>6, <3>7, <3>8 DEF SweepInv
    <2> QED
      BY <2>3, <2>4
  <1>4. ASSUME NEW w \in Workers, NEW t \in Tasks, Sweep!releaseLock(w, t)
        PROVE  SweepInv'
    <2>1. PICK s \in Sweep!Of(w) :
             IF lock[t] # None /\ lock[t].session = s
             THEN lock' = [lock EXCEPT ![t] = Sweep!Unlocked(t)] /\ UNCHANGED leaked
             ELSE /\ UNCHANGED lock
                  /\ leaked' = IF lock[t] # None /\ lock[t].session \in Sweep!Of(w)
                               THEN leaked \cup {<<lock[t].session, t>>} ELSE leaked
      BY <1>4 DEF Sweep!releaseLock
    <2>2. tick[w][t] = "release" /\ UNCHANGED dropped /\ Sweep!Goto(w, t, "idle")
      BY <1>4 DEF Sweep!releaseLock, Sweep!Idle
    <2>3. /\ tick' \in [Workers -> [Tasks -> Progress]] /\ tick'[w][t] = "idle"
          /\ \A v \in Workers, u \in Tasks : <<v, u>> # <<w, t>> => tick'[v][u] = tick[v][u]
      BY <1>0, <2>2, TickEffect DEF Progress
    <2>4. s \in Sweep!Sessions /\ s[1] = w
      BY DEF Sweep!Of, Sweep!Sessions
    <2>5. CASE lock[t] # None /\ lock[t].session = s
      <3>1. /\ lock' = [lock EXCEPT ![t] = Sweep!Unlocked(t)] /\ leaked' = leaked
            /\ lock'[t] = Sweep!Unlocked(t) /\ \A u \in Tasks \ {t} : lock'[u] = lock[u]
        BY <1>0, <2>1, <2>5 DEF SweepTypeOK
      <3>2. /\ lock'[t] \in Held \cup {None}
            /\ lock'[t] # None => lock'[t].session = s /\ lock[t].n > 1
        <4>1. lock[t] \in Held /\ lock[t].n \in Nat \ {0}
          BY <1>s, <2>5
        <4>2. CASE lock[t].n = 1
          BY <3>1, <4>2 DEF Sweep!Unlocked
        <4>3. CASE lock[t].n # 1
          BY <2>5, <3>1, <4>1, <4>3 DEF Sweep!Unlocked, Held
        <4> QED
          BY <4>2, <4>3
      <3>3. SweepTypeOK'
        BY <1>0, <2>3, <3>1, <3>2 DEF SweepTypeOK
      <3>4. ASSUME NEW v \in Workers, NEW u \in Tasks, Sweep!Deletes(v, u)'
            PROVE  Elected(v, u)' \/ u \in dropped'
        <4>1. Sweep!Deletes(v, u) /\ <<v, u>> # <<w, t>>
          BY <2>3, <3>4 DEF Sweep!Deletes
        <4>2. CASE u # t
          BY <1>0, <2>2, <3>1, <4>1, <4>2 DEF Elected
        <4>3. CASE u = t
          BY <1>0, <1>s, <2>2, <2>4, <2>5, <4>1, <4>3 DEF Elected
        <4> QED
          BY <4>2, <4>3
      <3>5. ASSUME NEW u \in Tasks
            PROVE  Accounted(u)'
        <4>1. CASE u # t
          BY <1>0, <1>s, <2>3, <3>1, <4>1 DEF Accounted, Sweep!Deletes
        <4>2. CASE u = t
          BY <1>0, <2>5, <3>1, <3>2, <4>2 DEF Accounted
        <4> QED
          BY <4>1, <4>2
      <3> QED
        BY <3>3, <3>4, <3>5 DEF SweepInv
    <2>6. CASE ~(lock[t] # None /\ lock[t].session = s)
      <3>1. /\ lock' = lock
            /\ leaked' = IF lock[t] # None /\ lock[t].session \in Sweep!Of(w)
                         THEN leaked \cup {<<lock[t].session, t>>} ELSE leaked
        BY <2>1, <2>6
      <3>2. SweepTypeOK'
        BY <1>0, <1>s, <2>3, <3>1 DEF SweepTypeOK
      <3>3. ASSUME NEW v \in Workers, NEW u \in Tasks, Sweep!Deletes(v, u)'
            PROVE  Elected(v, u)' \/ u \in dropped'
        <4>1. Sweep!Deletes(v, u)
          BY <2>3, <3>3 DEF Sweep!Deletes
        <4> QED
          BY <1>0, <2>2, <3>1, <4>1 DEF Elected
      <3>4. ASSUME NEW u \in Tasks
            PROVE  Accounted(u)'
        <4>1. CASE u # t \/ lock[t] = None \/ lock[t].session[1] # w
          BY <1>0, <1>s, <2>3, <3>1, <4>1 DEF Accounted, Sweep!Deletes
        <4>2. CASE u = t /\ lock[t] # None /\ lock[t].session[1] = w
          BY <1>s, <3>1, <4>2 DEF Accounted
        <4> QED
          BY <4>1, <4>2
      <3> QED
        BY <3>2, <3>3, <3>4 DEF SweepInv
    <2> QED
      BY <2>5, <2>6
  \* Sessions are closed: of the locks that stay, nothing changes.
  <1>5. ASSUME NEW closed, lock' \in [Tasks -> Held \cup {None}],
               \A t \in Tasks : lock'[t] = IF lock[t] # None /\ lock[t].session \in closed
                                           THEN None ELSE lock[t],
               leaked' = {x \in leaked : x[1] \notin closed},
               tick' \in [Workers -> [Tasks -> Progress]],
               \A w \in Workers, t \in Tasks :
                  \/ tick'[w][t] = tick[w][t]
                  \/ tick'[w][t] = "idle" /\ Sweep!Of(w) \subseteq closed,
               \A w \in Workers, t \in Tasks : Sweep!Deletes(w, t)' /\ Elected(w, t) =>
                  lock[t].session \notin closed \/ t \in dropped',
               dropped \subseteq dropped'
        PROVE  SweepInv'
    <2>1. SweepTypeOK'
      BY <1>0, <1>5 DEF SweepTypeOK
    <2>2. ASSUME NEW w \in Workers, NEW t \in Tasks, Sweep!Deletes(w, t)'
          PROVE  Elected(w, t)' \/ t \in dropped'
      <3>1. Sweep!Deletes(w, t)
        BY <1>5, <2>2 DEF Sweep!Deletes
      <3>2. CASE t \in dropped
        BY <1>5, <3>2
      <3>3. CASE t \notin dropped
        <4>1. Elected(w, t)
          BY <1>0, <3>1, <3>3
        <4>2. lock[t].session \notin closed \/ t \in dropped'
          BY <1>5, <2>2, <4>1
        <4> QED
          BY <1>5, <4>1, <4>2 DEF Elected
      <3> QED
        BY <3>2, <3>3
    <2>3. ASSUME NEW t \in Tasks
          PROVE  Accounted(t)'
      <3>1. CASE lock'[t] = None
        BY <3>1 DEF Accounted
      <3>2. CASE lock'[t] # None
        <4>1. lock[t] # None /\ lock[t].session \notin closed /\ lock'[t] = lock[t]
          BY <1>5, <3>2
        <4>2. lock[t].session[1] \in Workers /\ lock[t].session \in Sweep!Of(lock[t].session[1])
          BY <1>s, <4>1
        <4>3. tick'[lock[t].session[1]][t] = tick[lock[t].session[1]][t]
          BY <1>5, <4>1, <4>2
        <4>4. Sweep!Deletes(lock[t].session[1], t)' <=> Sweep!Deletes(lock[t].session[1], t)
          BY <4>1, <4>3 DEF Sweep!Deletes
        <4>5. <<lock[t].session, t>> \in leaked => <<lock[t].session, t>> \in leaked'
          BY <1>5, <4>1
        <4> QED
          BY <1>0, <4>1, <4>3, <4>5 DEF Accounted, Sweep!Deletes
      <3> QED
        BY <3>1, <3>2
    <2> QED
      BY <2>1, <2>2, <2>3 DEF SweepInv
  <1>6. ASSUME NEW s \in Sweep!Sessions, Sweep!CloseSession(s)
        PROVE  SweepInv'
    <2> DEFINE closed == {s}
    <2>1. /\ lock' \in [Tasks -> Held \cup {None}]
          /\ \A t \in Tasks : lock'[t] = IF lock[t] # None /\ lock[t].session \in closed
                                         THEN None ELSE lock[t]
      BY <1>0, <1>6 DEF Sweep!CloseSession, SweepTypeOK
    <2>2. leaked' = {x \in leaked : x[1] \notin closed} /\ dropped \subseteq dropped' /\ tick' = tick
      BY <1>6 DEF Sweep!CloseSession
    <2>3. \A w \in Workers, t \in Tasks : Sweep!Deletes(w, t)' /\ Elected(w, t) =>
             lock[t].session \notin closed \/ t \in dropped'
      BY <1>6, <1>s, <2>2 DEF Sweep!CloseSession, Sweep!Deletes, Elected
    <2>4. tick' \in [Workers -> [Tasks -> Progress]]
      BY <1>0, <2>2 DEF SweepTypeOK
    <2> HIDE DEF closed
    <2> QED
      BY <1>5, <2>1, <2>2, <2>3, <2>4
  <1>7. ASSUME NEW w \in Workers, Sweep!Crash(w)
        PROVE  SweepInv'
    <2> DEFINE closed == Sweep!Of(w)
    <2>1. /\ lock' \in [Tasks -> Held \cup {None}]
          /\ \A t \in Tasks : lock'[t] = IF lock[t] # None /\ lock[t].session \in closed
                                         THEN None ELSE lock[t]
      BY <1>0, <1>7 DEF Sweep!Crash, SweepTypeOK
    <2>2. leaked' = {x \in leaked : x[1] \notin closed} /\ dropped \subseteq dropped'
      BY <1>7 DEF Sweep!Crash
    <2>3. /\ tick' \in [Workers -> [Tasks -> Progress]]
          /\ \A t \in Tasks : tick'[w][t] = "idle"
          /\ \A v \in Workers \ {w}, t \in Tasks : tick'[v][t] = tick[v][t]
      BY <1>0, <1>7 DEF Sweep!Crash, Sweep!Idle, SweepTypeOK, Progress
    <2>4. \A v \in Workers, t \in Tasks : Sweep!Deletes(v, t)' /\ Elected(v, t) =>
             lock[t].session \notin closed \/ t \in dropped'
      BY <1>s, <2>3 DEF Sweep!Deletes, Elected
    <2>5. \A v \in Workers, t \in Tasks : \/ tick'[v][t] = tick[v][t]
                                          \/ tick'[v][t] = "idle" /\ Sweep!Of(v) \subseteq closed
      BY <2>3
    <2> HIDE DEF closed
    <2> QED
      BY <1>5, <2>1, <2>2, <2>3, <2>4, <2>5
  <1>8. CASE UNCHANGED sweepVars
    BY <1>0, <1>8 DEF sweepVars, SweepInv, SweepTypeOK, Accounted, Elected, Sweep!Deletes
  <1> QED
    BY <1>1, <1>2, <1>3, <1>4, <1>6, <1>7, <1>8 DEF Sweep!Next

(* Only the elected worker deletes, so there is at most one.               *)
LEMMA SweepImplies == SweepInv => Sweep!ElectionExplained
  <1> SUFFICES ASSUME SweepInv, NEW t \in Tasks
               PROVE  /\ Cardinality({w \in Workers : Sweep!Deletes(w, t)}) > 1 => t \in dropped
                      /\ lock[t] # None /\ ~Sweep!Deletes(lock[t].session[1], t)
                           => <<lock[t].session, t>> \in leaked
    BY SameCardinality DEF Sweep!ElectionExplained
  <1>1. lock[t] # None /\ ~Sweep!Deletes(lock[t].session[1], t) => <<lock[t].session, t>> \in leaked
    BY DEF SweepInv, Accounted
  <1>2. ASSUME t \notin dropped
        PROVE  Cardinality({w \in Workers : Sweep!Deletes(w, t)}) \in {0, 1}
    <2> DEFINE D == {w \in Workers : Sweep!Deletes(w, t)}
    <2>1. \A w \in D : Elected(w, t)
      BY <1>2 DEF SweepInv
    <2>2. ASSUME NEW v \in D, NEW w \in D
          PROVE  v = w
      <3>1. lock[t] # None /\ lock[t].session \in Sweep!Of(v) /\ lock[t].session \in Sweep!Of(w)
        BY <2>1 DEF Elected
      <3>2. lock[t].session \in Sweep!Sessions
        BY <3>1 DEF SweepInv, SweepTypeOK, Held
      <3> QED
        BY <3>1, <3>2, SessionOwner
    <2> HIDE DEF D
    <2>3. CASE D = {}
      BY <2>3, FS_EmptySet DEF D
    <2>4. CASE D # {}
      <3>1. PICK w : D = {w}
        BY <2>2, <2>4
      <3> QED
        BY <3>1, FS_Singleton DEF D
    <2> QED
      BY <2>3, <2>4
  <1> QED
    BY <1>1, <1>2

(* Two workers never delete the same rows at once, and no lock stays       *)
(* behind, without the reasons ElectionExplained lists, for any number of  *)
(* workers, sweeps and sessions of a pool.                                 *)
THEOREM SweepsElectOne == HostSpec => []SweepsAreExplained
  <1> DEFINE I == part = "sweep" => SweepInv
  <1>1. HostInit => I
    <2> SUFFICES ASSUME HostInit, part = "sweep"
                 PROVE  SweepInv
      OBVIOUS
    <2>1. Sweep!Init
      BY DEF HostInit
    <2> QED
      BY <2>1 DEF Sweep!Init, Sweep!Idle, SweepInv, SweepTypeOK, Progress, Accounted, Sweep!Deletes
  <1>2. I /\ [HostNext]_hostVars => I'
    BY PartSteps, SweepStep
  <1>3. I => SweepsAreExplained
    BY SweepImplies DEF SweepsAreExplained
  <1> QED
    BY <1>1, <1>2, <1>3, PTL DEF HostSpec, hostVars

-----------------------------------------------------------------------------
(* The SNS receiver. The inductive invariant: a message with a delivery    *)
(* row has had its effect, lost it to a failure, or a request is at work   *)
(* on it that claimed it; so has one that was acknowledged, unless it is   *)
(* a control message, which has no row and needs its own confirmation.     *)

InEffect(m) ==
    \/ m \in enqueued \cup lost \/ ~Aws!buildCodecommitJobMessage(m)
    \/ \E q \in snsReq : q.m = m /\ q.pc = "claimed"

AckInv ==
    /\ sns \in [Messages -> {"sending", "acked", "gone"}]
    /\ \A q \in snsReq : q.m \in Messages /\ q = [m |-> q.m, n |-> q.n, pc |-> q.pc]
    /\ \A m \in delivered \ Foreign : InEffect(m)
    /\ \A m \in Messages \ Foreign : sns[m] = "acked" =>
         IF Aws!isSubscriptionControl(m) THEN m \in confirmed \cup refused ELSE InEffect(m)

(* A request that ends keeps the invariant when it leaves behind the       *)
(* effect it had claimed and, if it acknowledges, that of its message.     *)
LEMMA RequestEnds ==
    ASSUME AckInv, NEW q \in snsReq, NEW status \in {"acked", "gone"},
           snsReq' = snsReq \ {q}, UNCHANGED delivered,
           sns' \in {sns, [sns EXCEPT ![q.m] = status]},
           enqueued \subseteq enqueued', lost \subseteq lost',
           confirmed \subseteq confirmed', refused \subseteq refused',
           q.pc = "claimed" /\ q.m \notin Foreign
             => q.m \in enqueued' \cup lost' \/ ~Aws!buildCodecommitJobMessage(q.m),
           sns' # sns /\ status = "acked" /\ q.m \notin Foreign =>
             IF Aws!isSubscriptionControl(q.m) THEN q.m \in confirmed' \cup refused'
             ELSE \/ q.m \in enqueued' \cup lost' \/ ~Aws!buildCodecommitJobMessage(q.m)
                  \/ q.m \in delivered
    PROVE  AckInv'
  <1>1. q.m \in Messages
    BY DEF AckInv
  <1>2. sns' \in [Messages -> {"sending", "acked", "gone"}]
    BY <1>1 DEF AckInv
  <1>3. ASSUME NEW m, m \notin Foreign, InEffect(m)
        PROVE  InEffect(m)'
    <2>1. CASE m \in enqueued \cup lost \/ ~Aws!buildCodecommitJobMessage(m)
      BY <2>1 DEF InEffect, Aws!buildCodecommitJobMessage
    <2>2. CASE \E p \in snsReq : p.m = m /\ p.pc = "claimed"
      <3>1. PICK p \in snsReq : p.m = m /\ p.pc = "claimed"
        BY <2>2
      <3>2. CASE p = q
        BY <1>3, <3>1, <3>2 DEF InEffect, Aws!buildCodecommitJobMessage
      <3>3. CASE p # q
        BY <3>1, <3>3 DEF InEffect
      <3> QED
        BY <3>2, <3>3
    <2> QED
      BY <1>3, <2>1, <2>2 DEF InEffect
  <1>4. \A m \in delivered' \ Foreign : InEffect(m)'
    BY <1>3 DEF AckInv
  <1>5. ASSUME NEW m \in Messages \ Foreign, sns'[m] = "acked"
        PROVE  IF Aws!isSubscriptionControl(m) THEN m \in confirmed' \cup refused' ELSE InEffect(m)'
    <2>1. CASE sns[m] = "acked"
      BY <1>3, <2>1 DEF AckInv
    <2>2. CASE sns[m] # "acked"
      <3>1. m = q.m /\ sns' # sns /\ status = "acked"
        BY <1>1, <1>5, <2>2 DEF AckInv
      <3>2. CASE q.m \in delivered
        BY <1>4, <1>5, <3>1, <3>2
      <3>3. CASE q.m \in enqueued' \cup lost' \/ ~Aws!buildCodecommitJobMessage(q.m)
        BY <1>5, <3>1, <3>3 DEF InEffect, Aws!buildCodecommitJobMessage
      <3> QED
        BY <1>5, <3>1, <3>2, <3>3
    <2> QED
      BY <2>1, <2>2
  <1> QED
    BY <1>2, <1>4, <1>5 DEF AckInv, Aws!isSubscriptionControl

(* A request that goes on keeps it too: only one that inserts the row of   *)
(* its message claims it.                                                  *)
LEMMA RequestGoesOn ==
    ASSUME AckInv, NEW q \in snsReq, NEW pc \in {"verified", "claimed"}, Aws!Goto(q, pc),
           q.pc # "claimed", UNCHANGED <<enqueued, confirmed, lost, refused>>,
           delivered' \subseteq delivered \cup (IF pc = "claimed" THEN {q.m} ELSE {})
    PROVE  AckInv'
  <1>1. /\ q.m \in Messages /\ q = [m |-> q.m, n |-> q.n, pc |-> q.pc]
        /\ sns' = sns /\ snsReq' = (snsReq \ {q}) \cup {[q EXCEPT !.pc = pc]}
    BY DEF AckInv, Aws!Goto
  <1>2. PICK n : n = [q EXCEPT !.pc = pc]
    OBVIOUS
  <1>3. n.m = q.m /\ n.pc = pc /\ n = [m |-> n.m, n |-> n.n, pc |-> n.pc]
    BY <1>1, <1>2
  <1>4. ASSUME NEW m, InEffect(m)
        PROVE  InEffect(m)'
    BY <1>1, <1>4 DEF InEffect, Aws!buildCodecommitJobMessage
  <1>5. pc = "claimed" => InEffect(q.m)'
    BY <1>1, <1>2, <1>3 DEF InEffect
  <1>6. \A p \in snsReq' : p.m \in Messages /\ p = [m |-> p.m, n |-> p.n, pc |-> p.pc]
    BY <1>1, <1>2, <1>3 DEF AckInv
  <1>7. \A m \in delivered' \ Foreign : InEffect(m)'
    BY <1>4, <1>5 DEF AckInv
  <1>8. \A m \in Messages \ Foreign : sns'[m] = "acked" =>
          IF Aws!isSubscriptionControl(m) THEN m \in confirmed' \cup refused' ELSE InEffect(m)'
    BY <1>1, <1>4 DEF AckInv
  <1> QED
    BY <1>1, <1>6, <1>7, <1>8 DEF AckInv, Aws!isSubscriptionControl

(* Every step on the CodeCommit side preserves AckInv.                     *)
LEMMA AckStep == AckInv /\ (Aws!Next \/ UNCHANGED awsVars) => AckInv'
  <1> SUFFICES ASSUME AckInv, Aws!Next \/ UNCHANGED awsVars
               PROVE  AckInv'
    OBVIOUS
  <1>u. ASSUME UNCHANGED Aws!receiver
        PROVE  AckInv'
    BY <1>u DEF Aws!receiver, AckInv, InEffect, Aws!buildCodecommitJobMessage,
                Aws!isSubscriptionControl
  <1>t. \A q \in snsReq : q.m \in Messages
    BY DEF AckInv
  <1>a. ASSUME NEW q \in snsReq, NEW status \in {"acked", "gone"}, Aws!Answer(q, status)
        PROVE  snsReq' = snsReq \ {q} /\ sns' \in {sns, [sns EXCEPT ![q.m] = status]}
    BY <1>a DEF Aws!Answer
  <1>1. ASSUME NEW m \in Messages, Aws!Post(m)
        PROVE  AckInv'
    <2>1. PICK n : snsReq' = snsReq \cup {[m |-> m, n |-> n, pc |-> "received"]}
      BY <1>1 DEF Aws!Post
    <2>2. UNCHANGED <<sns, delivered, enqueued, confirmed, lost, refused>>
      BY <1>1 DEF Aws!Post
    <2>3. \A k : InEffect(k) => InEffect(k)'
      BY <2>1, <2>2 DEF InEffect, Aws!buildCodecommitJobMessage
    <2>4. \A p \in snsReq' : p.m \in Messages /\ p = [m |-> p.m, n |-> p.n, pc |-> p.pc]
      BY <2>1 DEF AckInv
    <2> QED
      BY <2>2, <2>3, <2>4 DEF AckInv, Aws!isSubscriptionControl
  <1>2. ASSUME NEW q \in snsReq, Aws!verifySnsSignature(q)
        PROVE  AckInv'
    <2>1. CASE Aws!Goto(q, "verified")
      BY <1>2, <2>1, RequestGoesOn DEF Aws!verifySnsSignature
    <2>2. CASE Aws!Answer(q, "gone")
      BY <1>2, <1>a, <2>2, RequestEnds DEF Aws!verifySnsSignature
    <2> QED
      BY <1>2, <2>1, <2>2 DEF Aws!verifySnsSignature
  <1>3. ASSUME NEW q \in snsReq, Aws!idempotency(q)
        PROVE  AckInv'
    <2>0. /\ q.pc = "verified" /\ ~Aws!isSubscriptionControl(q.m)
          /\ UNCHANGED <<enqueued, confirmed, lost, refused>>
      BY <1>3 DEF Aws!idempotency, Aws!skipIdempotencyForControl
    <2>1. CASE q.m \in delivered
      <3>1. Aws!Answer(q, "acked") /\ UNCHANGED delivered
        BY <1>3, <2>1 DEF Aws!idempotency
      <3>2. snsReq' = snsReq \ {q} /\ sns' \in {sns, [sns EXCEPT ![q.m] = "acked"]}
        BY <1>a, <3>1
      <3> QED
        BY <2>0, <2>1, <3>1, <3>2, RequestEnds
    <2>2. CASE q.m \notin delivered
      <3>1. Aws!Goto(q, "claimed") /\ delivered' = delivered \cup {q.m}
        BY <1>3, <2>2 DEF Aws!idempotency
      <3> QED
        BY <2>0, <3>1, RequestGoesOn
    <2> QED
      BY <2>1, <2>2
  <1>4. ASSUME NEW q \in snsReq, Aws!forbidden(q)
        PROVE  AckInv'
    BY <1>4, <1>a, RequestEnds DEF Aws!forbidden, Aws!isAllowedTopic
  <1>5. ASSUME NEW q \in snsReq, Aws!confirmSubscription(q)
        PROVE  AckInv'
    <2>1. /\ Aws!isSubscriptionControl(q.m) /\ ~Aws!buildCodecommitJobMessage(q.m)
          /\ Aws!Answer(q, "acked") /\ UNCHANGED <<delivered, enqueued, lost>>
          /\ confirmed \subseteq confirmed' /\ refused \subseteq refused'
          /\ q.m \in confirmed' \cup refused'
      BY <1>5 DEF Aws!confirmSubscription, Aws!isSubscriptionControl, Aws!buildCodecommitJobMessage
    <2>2. snsReq' = snsReq \ {q} /\ sns' \in {sns, [sns EXCEPT ![q.m] = "acked"]}
      BY <1>a, <2>1
    <2> QED
      BY <2>1, <2>2, RequestEnds
  <1>6. ASSUME NEW q \in snsReq, Aws!handleNotification(q)
        PROVE  AckInv'
    <2>1. /\ ~Aws!isSubscriptionControl(q.m) /\ Aws!Answer(q, "acked")
          /\ enqueued' = enqueued \cup {q.m} /\ UNCHANGED <<delivered, confirmed, lost, refused>>
      BY <1>6 DEF Aws!handleNotification, Aws!isSubscriptionControl, Aws!buildCodecommitJobMessage
    <2>2. snsReq' = snsReq \ {q} /\ sns' \in {sns, [sns EXCEPT ![q.m] = "acked"]}
      BY <1>a, <2>1
    <2> QED
      BY <2>1, <2>2, RequestEnds
  <1>7. ASSUME NEW q \in snsReq, Aws!handleCodecommitFeedbackCommand(q)
        PROVE  AckInv'
    <2>1. /\ ~Aws!isSubscriptionControl(q.m) /\ ~Aws!buildCodecommitJobMessage(q.m)
          /\ Aws!Answer(q, "acked") /\ UNCHANGED <<delivered, enqueued, confirmed, lost, refused>>
      BY <1>7 DEF Aws!handleCodecommitFeedbackCommand
    <2>2. snsReq' = snsReq \ {q} /\ sns' \in {sns, [sns EXCEPT ![q.m] = "acked"]}
      BY <1>a, <2>1
    <2> QED
      BY <2>1, <2>2, RequestEnds
  <1>8. ASSUME NEW q \in snsReq, Aws!Fail(q)
        PROVE  AckInv'
    <2>1. /\ snsReq' = snsReq \ {q} /\ UNCHANGED <<sns, delivered, enqueued, confirmed, refused>>
          /\ lost' = IF q.pc = "claimed" THEN lost \cup {q.m} ELSE lost
      BY <1>8 DEF Aws!Fail
    <2> QED
      BY <2>1, RequestEnds
  <1>9. ASSUME \/ \E p \in PRs : Aws!Push(p) \/ Aws!Close(p) \/ \E v \in Reviews : Aws!getPR(v, p)
               \/ \E v \in Reviews : \/ Aws!getDiff(v) \/ Aws!runReview(v) \/ Aws!postReview(v)
                                     \/ Aws!postComment(v) \/ Aws!applyApprovalState(v) \/ Aws!Abort(v)
               \/ \E c \in posted, a \in Authors : Aws!Reply(c, a)
               \/ \E r \in Recoveries :
                    \/ Aws!recoverFeedbackHistory(r) \/ Aws!listCodeCommitPullRequestIds(r)
                    \/ Aws!scrapeCodeCommitFeedback(r) \/ Aws!selectExisting(r)
                    \/ Aws!insertFresh(r) \/ Aws!RecoveryFails(r)
        PROVE  UNCHANGED Aws!receiver
    <2>1. CASE \E p \in PRs : Aws!Push(p) \/ Aws!Close(p) \/ \E v \in Reviews : Aws!getPR(v, p)
      BY <2>1 DEF Aws!Push, Aws!Close, Aws!getPR, Aws!Progress
    <2>2. CASE \E v \in Reviews :
                  \/ Aws!getDiff(v) \/ Aws!runReview(v) \/ Aws!postReview(v)
                  \/ Aws!postComment(v) \/ Aws!applyApprovalState(v) \/ Aws!Abort(v)
      BY <2>2 DEF Aws!getDiff, Aws!runReview, Aws!postReview, Aws!postComment,
                  Aws!applyApprovalState, Aws!Abort, Aws!Progress
    <2>3. CASE \E c \in posted, a \in Authors : Aws!Reply(c, a)
      BY <2>3 DEF Aws!Reply
    <2>4. CASE \E r \in Recoveries :
                  \/ Aws!recoverFeedbackHistory(r) \/ Aws!listCodeCommitPullRequestIds(r)
                  \/ Aws!scrapeCodeCommitFeedback(r) \/ Aws!selectExisting(r)
                  \/ Aws!insertFresh(r) \/ Aws!RecoveryFails(r)
      BY <2>4 DEF Aws!recoverFeedbackHistory, Aws!listCodeCommitPullRequestIds,
                  Aws!scrapeCodeCommitFeedback, Aws!selectExisting, Aws!insertFresh,
                  Aws!RecoveryFails, Aws!Step
    <2> QED
      BY <1>9, <2>1, <2>2, <2>3, <2>4
  <1>10. CASE UNCHANGED awsVars
    BY <1>10, <1>u DEF awsVars, Aws!receiver
  <1> QED
    BY <1>1, <1>2, <1>3, <1>4, <1>5, <1>6, <1>7, <1>8, <1>9, <1>10, <1>u DEF Aws!Next

(* A message SNS was told is handled has had its effect, however often it  *)
(* was sent and in whatever order its requests were handled or failed.     *)
THEOREM AcksFollowEffects == HostSpec => []SnsAckedWasHandled
  <1> DEFINE I == part = "codecommit" => AckInv
  <1>1. HostInit => I
    <2> SUFFICES ASSUME HostInit, part = "codecommit"
                 PROVE  AckInv
      OBVIOUS
    <2>1. Aws!Init
      BY DEF HostInit
    <2> QED
      BY <2>1 DEF Aws!Init, AckInv
  <1>2. I /\ [HostNext]_hostVars => I'
    BY PartSteps, AckStep
  <1>3. I => SnsAckedWasHandled
    BY DEF SnsAckedWasHandled, AckInv, InEffect, Aws!AckedWasHandled
  <1> QED
    BY <1>1, <1>2, <1>3, PTL DEF HostSpec, hostVars

-----------------------------------------------------------------------------
(* Reviews on CodeCommit. The inductive invariant: a review posts the      *)
(* summary and its findings in order, all on the revision postReview read, *)
(* which is not older than the diff; an approval is one of a review that   *)
(* has ended with all of them posted, on the current revision.             *)

Comments == [pr : PRs, review : Reviews, n : Nat, rev : Nat]
ReviewRecord == [pc : {"new", "fetched", "diffed", "confirmed", "posting", "done"},
                 pr : PRs \cup {None}, read : Nat, rev : Nat,
                 event : {"COMMENT", "APPROVE", "REQUEST_CHANGES"}, n : Nat]

BackTypeOK ==
    /\ pr \in [PRs -> [open : BOOLEAN, rev : Nat]]
    /\ review \in [Reviews -> ReviewRecord]
    /\ posted \subseteq Comments
    /\ approval \in [PRs -> [by : Reviews, rev : Nat] \cup {None}]

InOrder(v) ==
    LET r == review[v] IN
    /\ r.pc # "new" => r.pr \in PRs
    /\ r.pc \in {"diffed", "confirmed"} => r.read <= pr[r.pr].rev
    /\ r.pc = "posting" => r.read <= r.rev
    /\ r.pc \notin {"posting", "done"} => r.n = 0
    /\ r.n <= Cardinality(Findings) + 1
    /\ r.pc # "done" =>
         /\ \A c \in posted : c.review = v => c.n < r.n /\ c.pr = r.pr /\ c.rev = r.rev
         /\ \A i \in Nat : i < r.n => \E c \in posted : c.review = v /\ c.n = i

Backed(p) ==
    LET v == approval[p].by
        own == {c \in posted : c.review = v}
    IN  /\ review[v].pc = "done" /\ review[v].read <= approval[p].rev
        /\ approval[p].rev = pr[p].rev
        /\ {c.n : c \in own} = {0} \cup Findings
        /\ \A c \in own : c.pr = p /\ c.rev = approval[p].rev

BackInv ==
    /\ BackTypeOK
    /\ \A v \in Reviews : InOrder(v)
    /\ \A p \in PRs : approval[p] # None => Backed(p)

(* The number of findings.                                                 *)
LEMMA FindingsCount ==
    /\ Cardinality(Findings) \in Nat /\ Aws!Cardinality(Findings) = Cardinality(Findings)
    /\ Findings = 1..Cardinality(Findings)
  BY FindingsAssumption, FS_CardinalityType, SameCardinality

(* A step of a review that posts nothing and approves nothing.             *)
LEMMA ReviewGoesOn ==
    ASSUME BackInv, NEW v \in Reviews, NEW r \in ReviewRecord, Aws!Progress(v, r),
           UNCHANGED <<posted, approval>>, review[v].pc # "done", r.pc # "new",
           r.n = review[v].n, r.pr \in PRs, r.rev = review[v].rev \/ r.n = 0,
           r.pr = review[v].pr \/ r.n = 0,
           r.pc \in {"diffed", "confirmed"} => r.read <= pr[r.pr].rev,
           r.pc = "posting" => r.read <= r.rev,
           r.pc \notin {"posting", "done"} => r.n = 0
    PROVE  BackInv'
  <1>1. /\ review' = [review EXCEPT ![v] = r] /\ UNCHANGED <<pr, posted, approval>>
        /\ BackTypeOK /\ InOrder(v)
    BY DEF Aws!Progress, BackInv
  <1>2. BackTypeOK'
    BY <1>1 DEF BackTypeOK
  <1>3. review'[v] = r /\ \A u \in Reviews \ {v} : review'[u] = review[u]
    BY <1>1 DEF BackTypeOK
  <1>4. r.n \in Nat /\ \A c \in posted : c.n \in Nat
    BY <1>1 DEF ReviewRecord, BackTypeOK, Comments
  <1>5. InOrder(v)'
    <2>1. r.n <= Cardinality(Findings) + 1
      BY <1>1 DEF InOrder
    <2>2. \A c \in posted : c.review = v => c.n < r.n /\ c.pr = r.pr /\ c.rev = r.rev
      <3> TAKE c \in posted
      <3> HAVE c.review = v
      <3>1. c.n < r.n /\ c.pr = review[v].pr /\ c.rev = review[v].rev
        BY <1>1 DEF InOrder
      <3>2. r.n # 0
        BY <1>4, <3>1
      <3> QED
        BY <3>1, <3>2
    <2>3. \A i \in Nat : i < r.n => \E c \in posted : c.review = v /\ c.n = i
      BY <1>1 DEF InOrder
    <2> QED
      BY <1>1, <1>3, <2>1, <2>2, <2>3 DEF InOrder
  <1>6. \A u \in Reviews \ {v} : InOrder(u)'
    BY <1>1, <1>3 DEF InOrder, BackInv
  <1>7. ASSUME NEW p \in PRs, approval'[p] # None
        PROVE  Backed(p)'
    <2>1. Backed(p) /\ approval[p].by \in Reviews
      BY <1>1, <1>7 DEF BackInv, BackTypeOK
    <2>2. approval[p].by # v
      BY <2>1 DEF Backed
    <2> QED
      BY <1>1, <1>3, <2>1, <2>2 DEF Backed
  <1> QED
    BY <1>2, <1>5, <1>6, <1>7 DEF BackInv

(* Every step on the CodeCommit side preserves BackInv.                    *)
LEMMA BackStep == BackInv /\ (Aws!Next \/ UNCHANGED awsVars) => BackInv'
  <1> SUFFICES ASSUME BackInv, Aws!Next \/ UNCHANGED awsVars
               PROVE  BackInv'
    OBVIOUS
  <1>0. /\ BackTypeOK /\ \A v \in Reviews : InOrder(v)
        /\ \A p \in PRs : approval[p] # None => Backed(p)
    BY DEF BackInv
  <1>r. \A v \in Reviews : review[v] \in ReviewRecord
    BY <1>0 DEF BackTypeOK
  <1>u. ASSUME UNCHANGED Aws!reviewing
        PROVE  BackInv'
    <2>1. pr' = pr /\ review' = review /\ posted' = posted /\ approval' = approval
      BY <1>u DEF Aws!reviewing
    <2>2. BackTypeOK'
      BY <1>0, <2>1 DEF BackTypeOK
    <2>3. \A v \in Reviews : InOrder(v)'
      BY <1>0, <2>1 DEF InOrder
    <2>4. \A p \in PRs : approval'[p] # None => Backed(p)'
      BY <1>0, <2>1, Zenon DEF Backed
    <2> QED
      BY <2>2, <2>3, <2>4 DEF BackInv
  <1>1. ASSUME NEW p \in PRs, Aws!Push(p) \/ Aws!Close(p)
        PROVE  BackInv'
    <2>1. /\ UNCHANGED <<review, posted>> /\ pr' \in [PRs -> [open : BOOLEAN, rev : Nat]]
          /\ \A x \in PRs : pr[x].rev \in Nat /\ pr'[x].rev \in Nat /\ pr[x].rev <= pr'[x].rev
          /\ approval' \in [PRs -> [by : Reviews, rev : Nat] \cup {None}]
          /\ \A x \in PRs : approval'[x] # None => approval'[x] = approval[x] /\ pr'[x].rev = pr[x].rev
      <3>1. CASE Aws!Push(p)
        <4>1. /\ UNCHANGED <<review, posted>> /\ approval' = [approval EXCEPT ![p] = None]
              /\ pr' = [pr EXCEPT ![p] = [pr[p] EXCEPT !.rev = @ + 1]]
          BY <3>1 DEF Aws!Push
        <4>2. pr[p] \in [open : BOOLEAN, rev : Nat]
          BY <1>0 DEF BackTypeOK
        <4>3. [pr[p] EXCEPT !.rev = @ + 1] \in [open : BOOLEAN, rev : Nat]
              /\ [pr[p] EXCEPT !.rev = @ + 1].rev = pr[p].rev + 1
          BY <4>2
        <4> QED
          BY <1>0, <4>1, <4>3 DEF BackTypeOK
      <3>2. CASE Aws!Close(p)
        <4>1. /\ UNCHANGED <<review, posted, approval>>
              /\ pr' = [pr EXCEPT ![p] = [pr[p] EXCEPT !.open = FALSE]]
          BY <3>2 DEF Aws!Close
        <4>2. pr[p] \in [open : BOOLEAN, rev : Nat]
          BY <1>0 DEF BackTypeOK
        <4>3. [pr[p] EXCEPT !.open = FALSE] \in [open : BOOLEAN, rev : Nat]
              /\ [pr[p] EXCEPT !.open = FALSE].rev = pr[p].rev
          BY <4>2
        <4> QED
          BY <1>0, <4>1, <4>3 DEF BackTypeOK
      <3> QED
        BY <1>1, <3>1, <3>2
    <2>2. BackTypeOK'
      BY <1>0, <2>1 DEF BackTypeOK
    <2>3. ASSUME NEW v \in Reviews
          PROVE  InOrder(v)'
      <3>1. InOrder(v) /\ review'[v] = review[v] /\ posted' = posted /\ review[v].read \in Nat
        BY <1>0, <1>r, <2>1 DEF ReviewRecord
      <3>2. review[v].pc \in {"diffed", "confirmed"} => review[v].read <= pr'[review[v].pr].rev
        BY <2>1, <3>1 DEF InOrder
      <3> QED
        BY <3>1, <3>2 DEF InOrder
    <2>4. ASSUME NEW x \in PRs, approval'[x] # None
          PROVE  Backed(x)'
      <3>1. /\ Backed(x) /\ approval'[x] = approval[x] /\ pr'[x].rev = pr[x].rev
            /\ posted' = posted /\ review' = review
        BY <1>0, <2>1, <2>4
      <3> QED
        BY <3>1, Zenon DEF Backed
    <2> QED
      BY <2>2, <2>3, <2>4 DEF BackInv
  <1>2. ASSUME NEW p \in PRs, NEW v \in Reviews, Aws!getPR(v, p)
        PROVE  BackInv'
    <2>1. PICK pc \in {"fetched", "done"} : Aws!Progress(v, [Aws!NoReview EXCEPT !.pc = pc, !.pr = p])
      BY <1>2 DEF Aws!getPR
    <2>2. PICK r : r = [Aws!NoReview EXCEPT !.pc = pc, !.pr = p]
      OBVIOUS
    <2>3. r \in ReviewRecord /\ r.pc = pc /\ r.pr = p /\ r.n = 0
      BY <2>2 DEF Aws!NoReview, ReviewRecord
    <2>4. review[v].pc = "new" /\ review[v].n = 0 /\ UNCHANGED <<posted, approval>>
      BY <1>0, <1>2 DEF Aws!getPR, InOrder
    <2> QED
      BY <2>1, <2>2, <2>3, <2>4, ReviewGoesOn
  <1>3. ASSUME NEW v \in Reviews, Aws!getDiff(v)
        PROVE  BackInv'
    <2>1. PICK r : r = [review[v] EXCEPT !.pc = "diffed", !.read = pr[review[v].pr].rev]
      OBVIOUS
    <2>2. /\ review[v].pc = "fetched" /\ Aws!Progress(v, r) /\ UNCHANGED <<posted, approval>>
          /\ review[v].pr \in PRs /\ review[v].n = 0 /\ pr[review[v].pr].rev \in Nat
      BY <1>0, <1>3, <2>1 DEF Aws!getDiff, InOrder, BackTypeOK
    <2>3. /\ r \in ReviewRecord /\ r.pc = "diffed" /\ r.pr = review[v].pr /\ r.n = 0
          /\ r.rev = review[v].rev /\ r.read = pr[r.pr].rev
      BY <1>r, <2>1, <2>2 DEF ReviewRecord
    <2> QED
      BY <2>2, <2>3, ReviewGoesOn
  <1>4. ASSUME NEW v \in Reviews, Aws!runReview(v)
        PROVE  BackInv'
    <2>1. PICK e \in {"COMMENT", "APPROVE", "REQUEST_CHANGES"} :
             \/ Aws!Progress(v, [review[v] EXCEPT !.pc = "confirmed", !.event = e])
             \/ Aws!Progress(v, [review[v] EXCEPT !.pc = "done"])
      BY <1>4 DEF Aws!runReview
    <2>2. PICK r \in {[review[v] EXCEPT !.pc = "confirmed", !.event = e],
                      [review[v] EXCEPT !.pc = "done"]} : Aws!Progress(v, r)
      BY <2>1
    <2>3. /\ review[v].pc = "diffed" /\ UNCHANGED <<posted, approval>>
          /\ review[v].pr \in PRs /\ review[v].n = 0 /\ review[v].read <= pr[review[v].pr].rev
      BY <1>0, <1>4 DEF Aws!runReview, InOrder
    <2>4. /\ r \in ReviewRecord /\ r.pc \in {"confirmed", "done"} /\ r.pr = review[v].pr
          /\ r.n = review[v].n /\ r.rev = review[v].rev /\ r.read = review[v].read
      BY <1>r, <2>2 DEF ReviewRecord
    <2> QED
      BY <2>2, <2>3, <2>4, ReviewGoesOn
  <1>5. ASSUME NEW v \in Reviews, Aws!postReview(v)
        PROVE  BackInv'
    <2>1. PICK r : r = [review[v] EXCEPT !.pc = "posting", !.rev = pr[review[v].pr].rev]
      OBVIOUS
    <2>2. /\ review[v].pc = "confirmed" /\ Aws!Progress(v, r) /\ UNCHANGED <<posted, approval>>
          /\ review[v].pr \in PRs /\ review[v].n = 0 /\ pr[review[v].pr].rev \in Nat
          /\ review[v].read <= pr[review[v].pr].rev
      BY <1>0, <1>5, <2>1 DEF Aws!postReview, InOrder, BackTypeOK
    <2>3. /\ r \in ReviewRecord /\ r.pc = "posting" /\ r.pr = review[v].pr /\ r.n = 0
          /\ r.rev = pr[review[v].pr].rev /\ r.read = review[v].read
      BY <1>r, <2>1, <2>2 DEF ReviewRecord
    <2> QED
      BY <2>2, <2>3, ReviewGoesOn
  <1>6. ASSUME NEW v \in Reviews, Aws!Abort(v)
        PROVE  BackInv'
    <2>1. PICK r : r = [review[v] EXCEPT !.pc = "done"]
      OBVIOUS
    <2>2. /\ review[v].pc \notin {"new", "done"} /\ Aws!Progress(v, r)
          /\ UNCHANGED <<posted, approval>> /\ review[v].pr \in PRs
      BY <1>0, <1>6, <2>1 DEF Aws!Abort, InOrder
    <2>3. /\ r \in ReviewRecord /\ r.pc = "done" /\ r.pr = review[v].pr
          /\ r.n = review[v].n /\ r.rev = review[v].rev
      BY <1>r, <2>1 DEF ReviewRecord
    <2> QED
      BY <2>2, <2>3, ReviewGoesOn
  <1>7. ASSUME NEW v \in Reviews, Aws!postComment(v)
        PROVE  BackInv'
    <2>1. PICK c : c = [pr |-> review[v].pr, review |-> v, n |-> review[v].n, rev |-> review[v].rev]
      OBVIOUS
    <2>2. PICK r : r = [review[v] EXCEPT !.n = @ + 1]
      OBVIOUS
    <2>3. /\ review[v].pc = "posting" /\ review[v].n <= Cardinality(Findings)
          /\ posted' = posted \cup {c} /\ review' = [review EXCEPT ![v] = r]
          /\ UNCHANGED <<pr, approval>>
      BY <1>7, <2>1, <2>2, FindingsCount DEF Aws!postComment, Aws!Progress
    <2>4. InOrder(v) /\ review[v].pr \in PRs /\ review[v].n \in Nat /\ review[v].rev \in Nat
      BY <1>0, <1>r, <2>3 DEF InOrder, ReviewRecord
    <2>5. /\ r \in ReviewRecord /\ r.pc = "posting" /\ r.pr = review[v].pr /\ r.rev = review[v].rev
          /\ r.read = review[v].read /\ r.n = review[v].n + 1
      BY <1>r, <2>2, <2>3 DEF ReviewRecord
    <2>6. c \in Comments /\ c.review = v /\ c.n = review[v].n /\ c.pr = r.pr /\ c.rev = r.rev
      BY <2>1, <2>4, <2>5 DEF Comments
    <2>7. BackTypeOK'
      BY <1>0, <2>3, <2>5, <2>6 DEF BackTypeOK
    <2>8. review'[v] = r /\ \A u \in Reviews \ {v} : review'[u] = review[u]
      BY <1>0, <2>3 DEF BackTypeOK
    <2>9. InOrder(v)'
      <3>1. r.n <= Cardinality(Findings) + 1
        BY <2>3, <2>4, <2>5, FindingsCount
      <3>2. \A d \in posted' : d.review = v => d.n < r.n /\ d.pr = r.pr /\ d.rev = r.rev
        <4>1. \A d \in posted : d.n \in Nat
          BY <1>0 DEF BackTypeOK, Comments
        <4>2. \A d \in posted : d.review = v =>
                 d.n < review[v].n /\ d.pr = review[v].pr /\ d.rev = review[v].rev
          BY <2>3, <2>4 DEF InOrder
        <4> QED
          BY <2>3, <2>4, <2>5, <2>6, <4>1, <4>2
      <3>3. \A i \in Nat : i < r.n => \E d \in posted' : d.review = v /\ d.n = i
        <4> TAKE i \in Nat
        <4> HAVE i < r.n
        <4>1. CASE i = review[v].n
          BY <2>3, <2>6, <4>1
        <4>2. CASE i # review[v].n
          <5>1. i < review[v].n
            BY <2>4, <2>5, <4>2
          <5>2. PICK d \in posted : d.review = v /\ d.n = i
            BY <2>3, <2>4, <5>1 DEF InOrder
          <5> QED
            BY <2>3, <5>2
        <4> QED
          BY <4>1, <4>2
      <3> QED
        BY <2>3, <2>4, <2>5, <2>8, <3>1, <3>2, <3>3 DEF InOrder
    <2>10. ASSUME NEW u \in Reviews \ {v}
           PROVE  InOrder(u)'
      <3>1. InOrder(u) /\ review'[u] = review[u] /\ pr' = pr
        BY <1>0, <2>3, <2>8
      <3> QED
        BY <2>3, <2>6, <3>1 DEF InOrder
    <2>11. ASSUME NEW p \in PRs, approval'[p] # None
           PROVE  Backed(p)'
      <3>1. Backed(p) /\ approval[p].by \in Reviews
        BY <1>0, <2>3, <2>11 DEF BackTypeOK
      <3>2. approval[p].by # v
        BY <2>3, <3>1 DEF Backed
      <3>3. {d \in posted' : d.review = approval[p].by} = {d \in posted : d.review = approval[p].by}
        BY <2>3, <2>6, <3>2
      <3> QED
        BY <2>3, <2>8, <3>1, <3>2, <3>3 DEF Backed
    <2> QED
      BY <2>7, <2>9, <2>10, <2>11 DEF BackInv
  <1>8. ASSUME NEW v \in Reviews, Aws!applyApprovalState(v)
        PROVE  BackInv'
    <2>1. PICK r : r = [review[v] EXCEPT !.pc = "done"]
      OBVIOUS
    <2>2. PICK p : p = review[v].pr
      OBVIOUS
    <2>3. /\ review[v].pc = "posting" /\ review[v].n > Cardinality(Findings) /\ p \in PRs
          /\ Aws!Progress(v, r) /\ UNCHANGED posted
      BY <1>0, <1>8, <2>1, <2>2, FindingsCount DEF Aws!applyApprovalState, InOrder
    <2>4. /\ r \in ReviewRecord /\ r.pc = "done" /\ r.pr = review[v].pr /\ r.read = review[v].read
          /\ r.n = review[v].n /\ r.rev = review[v].rev
      BY <1>r, <2>1 DEF ReviewRecord
    <2>5. CASE UNCHANGED approval
      BY <2>2, <2>3, <2>4, <2>5, ReviewGoesOn
    <2>6. CASE ~UNCHANGED approval
      <3>1. /\ review[v].rev = pr[p].rev
            /\ approval' = [approval EXCEPT ![p] =
                  IF review[v].event = "APPROVE" THEN [by |-> v, rev |-> review[v].rev] ELSE None]
        BY <1>8, <2>2, <2>6 DEF Aws!applyApprovalState, Aws!approvalRevision
      <3>2. /\ review' = [review EXCEPT ![v] = r] /\ UNCHANGED <<pr, posted>>
            /\ review'[v] = r /\ \A u \in Reviews \ {v} : review'[u] = review[u]
        BY <1>0, <2>3 DEF Aws!Progress, BackTypeOK
      <3>3. /\ review[v].rev \in Nat /\ review[v].n \in Nat /\ InOrder(v)
            /\ \A c \in posted : c.n \in Nat
        BY <1>0, <1>r DEF ReviewRecord, BackTypeOK, Comments
      <3>4. BackTypeOK'
        BY <1>0, <2>3, <2>4, <3>1, <3>2, <3>3 DEF BackTypeOK
      <3>5. InOrder(v)'
        BY <2>2, <2>3, <2>4, <3>2, <3>3 DEF InOrder
      <3>6. \A u \in Reviews \ {v} : InOrder(u)'
        BY <1>0, <3>2 DEF InOrder
      <3>7. ASSUME NEW x \in PRs, approval'[x] # None, approval'[x] = approval[x]
            PROVE  Backed(x)'
        <4>1. Backed(x) /\ approval[x].by \in Reviews
          BY <1>0, <3>7 DEF BackTypeOK
        <4>2. approval[x].by # v
          BY <2>3, <4>1 DEF Backed
        <4> QED
          BY <3>2, <3>7, <4>1, <4>2 DEF Backed
      <3>8. ASSUME approval'[p] # None, approval'[p] = [by |-> v, rev |-> review[v].rev]
            PROVE  Backed(p)'
        <4>1. approval'[p].by = v /\ approval'[p].rev = review[v].rev
          BY <3>8
        <4>2. review[v].n = Cardinality(Findings) + 1
          BY <2>3, <3>3, FindingsCount DEF InOrder
        <4> DEFINE own == {c \in posted : c.review = v}
        <4>3. \A c \in own : c.n < review[v].n /\ c.pr = p /\ c.rev = review[v].rev
          BY <2>2, <2>3, <3>3 DEF InOrder
        <4>4. {c.n : c \in own} = {0} \cup Findings
          <5>1. {0} \cup Findings = 0..Cardinality(Findings)
            BY FindingsCount
          <5>2. ASSUME NEW i \in 0..Cardinality(Findings)
                PROVE  i \in {c.n : c \in own}
            <6>1. i \in Nat /\ i < review[v].n
              BY <4>2, FindingsCount
            <6> QED
              BY <2>3, <3>3, <6>1 DEF InOrder
          <5>3. ASSUME NEW c \in own
                PROVE  c.n \in 0..Cardinality(Findings)
            BY <3>3, <4>2, <4>3, FindingsCount
          <5> QED
            BY <5>1, <5>2, <5>3
        <4>5. review[v].read <= review[v].rev
          BY <2>3, <3>3 DEF InOrder
        <4> QED
          BY <2>4, <3>1, <3>2, <4>1, <4>3, <4>4, <4>5 DEF Backed
      <3>9. \A x \in PRs : approval'[x] # None => Backed(x)'
        <4> TAKE x \in PRs
        <4> HAVE approval'[x] # None
        <4>1. x # p => approval'[x] = approval[x]
          BY <1>0, <3>1 DEF BackTypeOK
        <4>2. x = p => approval'[p] = [by |-> v, rev |-> review[v].rev]
          BY <1>0, <3>1 DEF BackTypeOK
        <4> QED
          BY <3>7, <3>8, <4>1, <4>2
      <3> QED
        BY <3>4, <3>5, <3>6, <3>9 DEF BackInv
    <2> QED
      BY <2>5, <2>6
  <1>9. ASSUME \/ \E m \in Messages : Aws!Post(m)
               \/ \E q \in snsReq : \/ Aws!verifySnsSignature(q) \/ Aws!idempotency(q)
                                    \/ Aws!forbidden(q) \/ Aws!confirmSubscription(q)
                                    \/ Aws!handleNotification(q)
                                    \/ Aws!handleCodecommitFeedbackCommand(q) \/ Aws!Fail(q)
               \/ \E c \in posted, a \in Authors : Aws!Reply(c, a)
               \/ \E r \in Recoveries :
                    \/ Aws!recoverFeedbackHistory(r) \/ Aws!listCodeCommitPullRequestIds(r)
                    \/ Aws!scrapeCodeCommitFeedback(r) \/ Aws!selectExisting(r)
                    \/ Aws!insertFresh(r) \/ Aws!RecoveryFails(r)
        PROVE  UNCHANGED Aws!reviewing
    <2>1. CASE \E m \in Messages : Aws!Post(m)
      BY <2>1 DEF Aws!Post
    <2>2. CASE \E q \in snsReq : \/ Aws!verifySnsSignature(q) \/ Aws!idempotency(q)
                                 \/ Aws!forbidden(q) \/ Aws!confirmSubscription(q)
                                 \/ Aws!handleNotification(q)
                                 \/ Aws!handleCodecommitFeedbackCommand(q) \/ Aws!Fail(q)
      BY <2>2 DEF Aws!verifySnsSignature, Aws!idempotency, Aws!forbidden, Aws!confirmSubscription,
                  Aws!handleNotification, Aws!handleCodecommitFeedbackCommand, Aws!Fail
    <2>3. CASE \E c \in posted, a \in Authors : Aws!Reply(c, a)
      BY <2>3 DEF Aws!Reply
    <2>4. CASE \E r \in Recoveries :
                  \/ Aws!recoverFeedbackHistory(r) \/ Aws!listCodeCommitPullRequestIds(r)
                  \/ Aws!scrapeCodeCommitFeedback(r) \/ Aws!selectExisting(r)
                  \/ Aws!insertFresh(r) \/ Aws!RecoveryFails(r)
      BY <2>4 DEF Aws!recoverFeedbackHistory, Aws!listCodeCommitPullRequestIds,
                  Aws!scrapeCodeCommitFeedback, Aws!selectExisting, Aws!insertFresh,
                  Aws!RecoveryFails, Aws!Step
    <2> QED
      BY <1>9, <2>1, <2>2, <2>3, <2>4
  <1>10. CASE UNCHANGED awsVars
    BY <1>10, <1>u DEF awsVars, Aws!reviewing
  <1> QED
    BY <1>1, <1>2, <1>3, <1>4, <1>5, <1>6, <1>7, <1>8, <1>9, <1>10, <1>u DEF Aws!Next

(* No review has begun.                                                    *)
LEMMA BackInit == Aws!Init => BackInv
  <1> SUFFICES ASSUME Aws!Init
               PROVE  BackInv
    OBVIOUS
  <1>1. Aws!NoReview \in ReviewRecord /\ Aws!NoReview.pc = "new" /\ Aws!NoReview.n = 0
    BY DEF Aws!NoReview, ReviewRecord
  <1>2. BackTypeOK
    BY <1>1 DEF Aws!Init, BackTypeOK
  <1>3. \A v \in Reviews : InOrder(v)
    BY <1>1, FindingsCount DEF Aws!Init, InOrder
  <1>4. \A p \in PRs : approval[p] = None
    BY DEF Aws!Init
  <1> QED
    BY <1>2, <1>3, <1>4 DEF BackInv

(* Whoever sees the agent's approval sees the whole review it rests on,    *)
(* for any number of reviews racing with pushes and with each other.       *)
THEOREM ApprovalsRestOnReviews == HostSpec => []CodeCommitApprovalBacked
  <1> DEFINE I == part = "codecommit" => BackInv
  <1>1. HostInit => I
    BY BackInit DEF HostInit
  <1>2. I /\ [HostNext]_hostVars => I'
    BY PartSteps, BackStep
  <1>3. I => CodeCommitApprovalBacked
    <2>1. BackInv => Aws!ApprovalBacked
      BY DEF BackInv, Backed, Aws!ApprovalBacked
    <2> QED
      BY <2>1 DEF CodeCommitApprovalBacked
  <1> QED
    BY <1>1, <1>2, <1>3, PTL DEF HostSpec, hostVars

-----------------------------------------------------------------------------
(* Recovery of feedback on CodeCommit. The inductive invariant: a pull     *)
(* request that the pass over the open ones no longer finds is closed, and *)
(* the pass over the closed ones has still to come; so the walk meets      *)
(* every reply it began with, and inserts those whose fact it did not see. *)
(* Two recoveries that ran at the same time know it of each other, and a   *)
(* fact inserted since a recovery looked was inserted by one of those.     *)

WalkRecord == [pc : {"new", "listing", "walking", "scraped", "inserting", "done", "failed"},
               pass : {1, 2}, page : SUBSET PRs, ids : SUBSET PRs, todo : SUBSET PRs,
               found : SUBSET replies, fresh : SUBSET replies, base : SUBSET replies,
               during : SUBSET Recoveries]

ClosedPRs == {p \in PRs : ~pr[p].open}
Facts == {h.fact : h \in history}

Covers(w, closed, facts) ==
    /\ w.pc = "listing" /\ w.pass = 1 => \A p \in PRs : p \in w.page \cup w.ids \cup closed
    /\ w.pc = "listing" /\ w.pass = 2 => \A p \in PRs : p \in w.ids \cup (w.page \cap closed)
    /\ \A y \in w.base : Aws!resolves(y) =>
         /\ w.pc = "walking" => y.pr \in w.todo \/ y \in w.found
         /\ w.pc = "scraped" => y \in w.found
         /\ w.pc = "inserting" => y \in w.fresh \/ Aws!factText(y) \in facts
         /\ w.pc = "done" => Aws!factText(y) \in facts

Overlap(r, s) == r \in walk[s].during \/ s \in walk[r].during

RestTypeOK ==
    /\ \A y \in replies : y.pr \in PRs
    /\ walk \in [Recoveries -> WalkRecord]
    /\ \A h \in history : /\ h = [fact |-> h.fact, by |-> h.by, reply |-> h.reply]
                          /\ h.by \in Recoveries /\ walk[h.by].pc = "done"

RestInv ==
    /\ RestTypeOK
    /\ \A r \in Recoveries : Covers(walk[r], ClosedPRs, Facts)
    /\ \A r, s \in Aws!Running : r # s => Overlap(r, s)
    /\ \A s \in Recoveries : walk[s].pc = "inserting" =>
         \A y \in walk[s].fresh, h \in history : h.fact = Aws!factText(y) => Overlap(h.by, s)
    /\ \A h, k \in history : h.fact = k.fact /\ h.by # k.by => Overlap(h.by, k.by)

(* More closed pull requests and more facts do no harm.                    *)
LEMMA CoversMore ==
    ASSUME NEW w, NEW closed, NEW facts, NEW closed2, NEW facts2, Covers(w, closed, facts),
           closed \subseteq closed2, facts \subseteq facts2
    PROVE  Covers(w, closed2, facts2)
  BY DEF Covers

(* A running recovery goes on without inserting anything.                  *)
LEMMA WalkGoesOn ==
    ASSUME RestInv, NEW r \in Aws!Running, NEW w \in WalkRecord, Aws!Step(r, w),
           UNCHANGED history, w.during = walk[r].during, w.pc # "new",
           Covers(w, ClosedPRs, Facts),
           w.pc = "inserting" => \A y \in w.fresh : Aws!factText(y) \notin Facts
    PROVE  RestInv'
  <1>1. /\ walk' = [walk EXCEPT ![r] = w] /\ UNCHANGED <<pr, replies, history>>
        /\ r \in Recoveries /\ walk[r].pc \notin {"new", "done", "failed"}
    BY DEF Aws!Step, Aws!reviewing, Aws!Running
  <1>2. walk'[r] = w /\ \A s \in Recoveries \ {r} : walk'[s] = walk[s]
    BY <1>1 DEF RestInv, RestTypeOK
  <1>3. \A s \in Recoveries : walk'[s].during = walk[s].during
    BY <1>2
  <1>4. \A h \in history : h.by \in Recoveries \ {r}
    BY <1>1 DEF RestInv, RestTypeOK
  <1>5. RestTypeOK'
    <2>1. walk' \in [Recoveries -> WalkRecord]
      BY <1>1 DEF RestInv, RestTypeOK
    <2>2. WalkRecord' = WalkRecord
      BY <1>1 DEF WalkRecord
    <2>3. \A h \in history' : /\ h = [fact |-> h.fact, by |-> h.by, reply |-> h.reply]
                              /\ h.by \in Recoveries /\ walk'[h.by].pc = "done"
      BY <1>1, <1>2, <1>4 DEF RestInv, RestTypeOK
    <2> QED
      BY <1>1, <2>1, <2>2, <2>3 DEF RestInv, RestTypeOK
  <1>6. ClosedPRs' = ClosedPRs /\ Facts' = Facts
    BY <1>1 DEF ClosedPRs, Facts
  <1>7. \A s \in Recoveries : Covers(walk'[s], ClosedPRs', Facts')
    BY <1>2, <1>6 DEF RestInv
  <1>8. \A s, u \in Recoveries : Overlap(s, u)' <=> Overlap(s, u)
    BY <1>3 DEF Overlap
  <1>9. Aws!Running' \subseteq Aws!Running
    BY <1>1, <1>2 DEF Aws!Running
  <1>10. \A s, u \in Aws!Running' : s # u => Overlap(s, u)'
    <2>1. Aws!Running \subseteq Recoveries
      BY DEF Aws!Running
    <2> QED
      BY <1>8, <1>9, <2>1 DEF RestInv
  <1>11. ASSUME NEW s \in Recoveries, walk'[s].pc = "inserting",
                NEW y \in walk'[s].fresh, NEW h \in history', h.fact = Aws!factText(y)
         PROVE  Overlap(h.by, s)'
    <2>1. s # r
      BY <1>1, <1>2, <1>11 DEF Facts
    <2> QED
      BY <1>1, <1>2, <1>4, <1>8, <1>11, <2>1 DEF RestInv
  <1>12. \A h, k \in history' : h.fact = k.fact /\ h.by # k.by => Overlap(h.by, k.by)'
    BY <1>1, <1>4, <1>8 DEF RestInv
  <1>13. \A s \in Recoveries : walk'[s].pc = "inserting" =>
           \A y \in walk'[s].fresh, h \in history' : h.fact = Aws!factText(y) => Overlap(h.by, s)'
    BY <1>11
  <1> QED
    BY <1>5, <1>7, <1>10, <1>12, <1>13 DEF RestInv, Aws!factText

(* Every step on the CodeCommit side preserves RestInv.                    *)
LEMMA RestStep == BackInv /\ RestInv /\ (Aws!Next \/ UNCHANGED awsVars) => RestInv'
  <1> SUFFICES ASSUME BackInv, RestInv, Aws!Next \/ UNCHANGED awsVars
               PROVE  RestInv'
    OBVIOUS
  <1>0. /\ RestTypeOK /\ \A r \in Recoveries : Covers(walk[r], ClosedPRs, Facts)
        /\ \A r \in Recoveries : walk[r] \in WalkRecord
        /\ \A p \in PRs : pr[p].open \in BOOLEAN
    BY DEF RestInv, RestTypeOK, BackInv, BackTypeOK
  \* The recoveries stand still: pull requests are closed, replies are written.
  <1>u. ASSUME UNCHANGED <<walk, history>>, \A p \in PRs : ~pr[p].open => ~pr'[p].open,
               replies \subseteq replies', \A y \in replies' : y.pr \in PRs
        PROVE  RestInv'
    <2>1. Facts' = Facts /\ ClosedPRs \subseteq ClosedPRs'
      BY <1>u DEF Facts, ClosedPRs
    <2>2. RestTypeOK'
      <3>1. WalkRecord \subseteq WalkRecord'
        BY <1>u DEF WalkRecord
      <3>2. walk' \in [Recoveries -> WalkRecord']
        BY <1>0, <1>u, <3>1 DEF RestTypeOK
      <3> QED
        BY <1>0, <1>u, <3>2 DEF RestTypeOK
    <2>3. \A r \in Recoveries : Covers(walk'[r], ClosedPRs', Facts')
      BY <1>0, <1>u, <2>1, CoversMore
    <2>4. Aws!Running' = Aws!Running /\ \A r, s : Overlap(r, s)' <=> Overlap(r, s)
      BY <1>u DEF Aws!Running, Overlap
    <2> QED
      BY <1>u, <2>2, <2>3, <2>4 DEF RestInv, Aws!factText
  <1>1. ASSUME NEW p \in PRs, Aws!Push(p) \/ Aws!Close(p)
        PROVE  RestInv'
    <2>1. UNCHANGED <<walk, history, replies>>
      BY <1>1 DEF Aws!Push, Aws!Close, Aws!recovering
    <2>2. \A x \in PRs : ~pr[x].open => ~pr'[x].open
      BY <1>1 DEF Aws!Push, Aws!Close, BackInv, BackTypeOK
    <2> QED
      BY <1>0, <1>u, <2>1, <2>2 DEF RestTypeOK
  <1>2. ASSUME NEW c \in posted, NEW a \in Authors, Aws!Reply(c, a)
        PROVE  RestInv'
    <2>1. c.pr \in PRs
      BY DEF BackInv, BackTypeOK, Comments
    <2>2. PICK y : y.pr = c.pr /\ replies' = replies \cup {y}
      BY <1>2 DEF Aws!Reply
    <2>3. UNCHANGED <<walk, history, pr>>
      BY <1>2 DEF Aws!Reply, Aws!recovering, Aws!reviewing
    <2> QED
      BY <1>0, <1>u, <2>1, <2>2, <2>3 DEF RestTypeOK
  <1>3. ASSUME NEW r \in Recoveries, Aws!recoverFeedbackHistory(r)
        PROVE  RestInv'
    <2>1. PICK w : w = [Aws!NoWalk EXCEPT !.pc = "listing", !.page = PRs, !.base = replies,
                                          !.during = Aws!Running]
      OBVIOUS
    <2>2. /\ walk[r].pc = "new" /\ UNCHANGED <<pr, replies, history>>
          /\ walk' \in [Recoveries -> {w} \cup WalkRecord]
          /\ walk'[r] = w /\ \A s \in Recoveries \ {r} : walk'[s] = walk[s]
      BY <1>0, <1>3, <2>1 DEF Aws!recoverFeedbackHistory, Aws!reviewing
    <2>3. /\ w \in WalkRecord /\ w.pc = "listing" /\ w.pass = 1 /\ w.page = PRs
          /\ w.during = Aws!Running
      BY <2>1 DEF Aws!NoWalk, WalkRecord, Aws!Running
    <2>4. \A h \in history : h.by \in Recoveries \ {r}
      BY <1>0, <2>2 DEF RestTypeOK
    <2>5. RestTypeOK'
      <3>1. WalkRecord' = WalkRecord
        BY <2>2 DEF WalkRecord
      <3> QED
        BY <1>0, <2>2, <2>3, <2>4, <3>1 DEF RestTypeOK
    <2>6. \A s \in Recoveries : Covers(walk'[s], ClosedPRs', Facts')
      <3>1. ClosedPRs' = ClosedPRs /\ Facts' = Facts
        BY <2>2 DEF ClosedPRs, Facts
      <3>2. Covers(w, ClosedPRs, Facts)
        BY <2>3 DEF Covers
      <3> QED
        BY <1>0, <2>2, <3>1, <3>2
    <2>7. r \notin Aws!Running /\ Aws!Running' = Aws!Running \cup {r} /\ Aws!Running \subseteq Recoveries
      BY <2>2, <2>3 DEF Aws!Running
    <2>8. \A s, u \in Recoveries \ {r} : Overlap(s, u)' <=> Overlap(s, u)
      BY <2>2 DEF Overlap
    <2>9. \A s, u \in Aws!Running' : s # u => Overlap(s, u)'
      <3>1. \A s \in Aws!Running : Overlap(s, r)' /\ Overlap(r, s)'
        BY <2>2, <2>3 DEF Overlap
      <3>2. \A s, u \in Aws!Running : s # u => Overlap(s, u)'
        BY <2>7, <2>8 DEF RestInv
      <3> QED
        BY <2>7, <3>1, <3>2
    <2>10. \A s \in Recoveries : walk'[s].pc = "inserting" =>
             \A y \in walk'[s].fresh, h \in history' : h.fact = Aws!factText(y) => Overlap(h.by, s)'
      <3> SUFFICES ASSUME NEW s \in Recoveries, walk'[s].pc = "inserting",
                          NEW y \in walk'[s].fresh, NEW h \in history', h.fact = Aws!factText(y)
                   PROVE  Overlap(h.by, s)'
        OBVIOUS
      <3>1. s # r /\ walk'[s] = walk[s] /\ h \in history
        BY <2>2, <2>3
      <3>2. Overlap(h.by, s)
        BY <3>1 DEF RestInv
      <3> QED
        BY <2>4, <2>8, <3>1, <3>2
    <2>11. \A h, k \in history' : h.fact = k.fact /\ h.by # k.by => Overlap(h.by, k.by)'
      BY <2>2, <2>4, <2>8 DEF RestInv
    <2> QED
      BY <2>5, <2>6, <2>9, <2>10, <2>11 DEF RestInv, Aws!factText
  <1>4. ASSUME NEW r \in Recoveries, Aws!listCodeCommitPullRequestIds(r)
        PROVE  RestInv'
    <2>0. /\ walk[r].pc = "listing" /\ UNCHANGED history /\ r \in Aws!Running
          /\ walk[r] \in WalkRecord /\ Covers(walk[r], ClosedPRs, Facts)
      BY <1>0, <1>4 DEF Aws!listCodeCommitPullRequestIds, Aws!Running
    <2>1. CASE walk[r].page # {} /\ \E p \in walk[r].page :
                 Aws!Step(r, [walk[r] EXCEPT !.page = @ \ {p},
                   !.ids = IF pr[p].open = (Aws!statuses[walk[r].pass] = "OPEN") THEN @ \cup {p} ELSE @])
      <3>1. PICK p \in walk[r].page :
                 Aws!Step(r, [walk[r] EXCEPT !.page = @ \ {p},
                   !.ids = IF pr[p].open = (Aws!statuses[walk[r].pass] = "OPEN") THEN @ \cup {p} ELSE @])
        BY <2>1
      <3>2. p \in PRs /\ pr[p].open \in BOOLEAN
        BY <1>0, <2>0 DEF WalkRecord
      <3>3. \/ walk[r].pass = 1 /\ (Aws!statuses[walk[r].pass] = "OPEN")
            \/ walk[r].pass = 2 /\ ~(Aws!statuses[walk[r].pass] = "OPEN")
        BY <2>0 DEF WalkRecord, Aws!statuses
      <3>4. PICK w : w = [walk[r] EXCEPT !.page = @ \ {p},
                           !.ids = IF (walk[r].pass = 1 /\ pr[p].open) \/ (walk[r].pass = 2 /\ ~pr[p].open)
                                   THEN @ \cup {p} ELSE @]
        OBVIOUS
      <3>5. (pr[p].open = (Aws!statuses[walk[r].pass] = "OPEN"))
              <=> (walk[r].pass = 1 /\ pr[p].open) \/ (walk[r].pass = 2 /\ ~pr[p].open)
        <4>1. CASE walk[r].pass = 1
          <5>1. (Aws!statuses[walk[r].pass] = "OPEN") = TRUE
            BY <3>3, <4>1
          <5> QED
            BY <3>2, <4>1, <5>1
        <4>2. CASE walk[r].pass = 2
          <5>1. (Aws!statuses[walk[r].pass] = "OPEN") = FALSE
            BY <3>3, <4>2
          <5> QED
            BY <3>2, <4>2, <5>1
        <4> QED
          BY <3>3, <4>1, <4>2
      <3>6. Aws!Step(r, w)
        BY <3>1, <3>4, <3>5
      <3>7. /\ w \in WalkRecord /\ w.pc = "listing" /\ w.pass = walk[r].pass
            /\ w.during = walk[r].during /\ w.page = walk[r].page \ {p}
            /\ walk[r].ids \subseteq w.ids
            /\ (walk[r].pass = 1 /\ pr[p].open) \/ (walk[r].pass = 2 /\ ~pr[p].open) => p \in w.ids
        BY <2>0, <3>2, <3>4 DEF WalkRecord
      <3>8. Covers(w, ClosedPRs, Facts)
        <4>1. w.pass = 1 => \A x \in PRs : x \in w.page \cup w.ids \cup ClosedPRs
          BY <2>0, <3>2, <3>7 DEF Covers, ClosedPRs
        <4>2. w.pass = 2 => \A x \in PRs : x \in w.ids \cup (w.page \cap ClosedPRs)
          BY <2>0, <3>2, <3>7 DEF Covers, ClosedPRs
        <4> QED
          BY <3>7, <4>1, <4>2 DEF Covers
      <3> QED
        BY <2>0, <3>6, <3>7, <3>8, WalkGoesOn
    <2>2. CASE walk[r].page = {} /\ walk[r].pass = 1
               /\ Aws!Step(r, [walk[r] EXCEPT !.pass = 2, !.page = PRs])
      <3>1. PICK w : w = [walk[r] EXCEPT !.pass = 2, !.page = PRs]
        OBVIOUS
      <3>2. /\ w \in WalkRecord /\ w.pc = "listing" /\ w.pass = 2 /\ w.page = PRs
            /\ w.ids = walk[r].ids /\ w.during = walk[r].during
        BY <2>0, <3>1 DEF WalkRecord
      <3>3. Covers(w, ClosedPRs, Facts)
        BY <2>0, <2>2, <3>2 DEF Covers
      <3> QED
        BY <2>0, <2>2, <3>1, <3>2, <3>3, WalkGoesOn
    <2>3. CASE walk[r].page = {} /\ walk[r].pass = 2
               /\ Aws!Step(r, [walk[r] EXCEPT !.pc = "walking", !.todo = walk[r].ids])
      <3>1. PICK w : w = [walk[r] EXCEPT !.pc = "walking", !.todo = walk[r].ids]
        OBVIOUS
      <3>2. /\ w \in WalkRecord /\ w.pc = "walking" /\ w.todo = walk[r].ids
            /\ w.base = walk[r].base /\ w.during = walk[r].during
        BY <2>0, <3>1 DEF WalkRecord
      <3>3. \A y \in w.base : y.pr \in w.todo
        <4>1. PRs \subseteq walk[r].ids
          BY <2>0, <2>3 DEF Covers
        <4>2. \A y \in walk[r].base : y.pr \in PRs
          BY <1>0, <2>0 DEF RestTypeOK, WalkRecord
        <4> QED
          BY <3>2, <4>1, <4>2
      <3>4. Covers(w, ClosedPRs, Facts)
        BY <3>2, <3>3 DEF Covers
      <3> QED
        BY <2>0, <2>3, <3>1, <3>2, <3>4, WalkGoesOn
    <2> QED
      BY <1>4, <2>1, <2>2, <2>3 DEF Aws!listCodeCommitPullRequestIds
  <1>5. ASSUME NEW r \in Recoveries, Aws!scrapeCodeCommitFeedback(r)
        PROVE  RestInv'
    <2>0. /\ walk[r].pc = "walking" /\ UNCHANGED history /\ r \in Aws!Running
          /\ walk[r] \in WalkRecord /\ Covers(walk[r], ClosedPRs, Facts)
      BY <1>0, <1>5 DEF Aws!scrapeCodeCommitFeedback, Aws!Running
    <2>1. ASSUME NEW p \in walk[r].todo,
                 Aws!Step(r, [walk[r] EXCEPT !.todo = @ \ {p},
                               !.found = @ \cup {y \in replies : y.pr = p /\ Aws!resolves(y)}])
          PROVE  RestInv'
      <3>1. PICK w : w = [walk[r] EXCEPT !.todo = @ \ {p},
                           !.found = @ \cup {y \in replies : y.pr = p /\ Aws!resolves(y)}]
        OBVIOUS
      <3>2. /\ w \in WalkRecord /\ w.pc = "walking" /\ w.todo = walk[r].todo \ {p}
            /\ w.found = walk[r].found \cup {y \in replies : y.pr = p /\ Aws!resolves(y)}
            /\ w.base = walk[r].base /\ w.base \subseteq replies /\ w.during = walk[r].during
        BY <2>0, <3>1 DEF WalkRecord
      <3>3. Covers(w, ClosedPRs, Facts)
        BY <2>0, <3>2 DEF Covers
      <3> QED
        BY <2>0, <2>1, <3>1, <3>2, <3>3, WalkGoesOn
    <2>2. CASE walk[r].todo = {} /\ Aws!Step(r, [walk[r] EXCEPT !.pc = "scraped"])
      <3>1. PICK w : w = [walk[r] EXCEPT !.pc = "scraped"]
        OBVIOUS
      <3>2. /\ w \in WalkRecord /\ w.pc = "scraped" /\ w.found = walk[r].found
            /\ w.base = walk[r].base /\ w.during = walk[r].during
        BY <2>0, <3>1 DEF WalkRecord
      <3>3. Covers(w, ClosedPRs, Facts)
        BY <2>0, <2>2, <3>2 DEF Covers
      <3> QED
        BY <2>0, <2>2, <3>1, <3>2, <3>3, WalkGoesOn
    <2> QED
      BY <1>5, <2>1, <2>2 DEF Aws!scrapeCodeCommitFeedback
  <1>6. ASSUME NEW r \in Recoveries, Aws!selectExisting(r)
        PROVE  RestInv'
    <2> DEFINE fresh == {y \in walk[r].found : Aws!factText(y) \notin Facts}
    <2>0. /\ walk[r].pc = "scraped" /\ UNCHANGED history /\ r \in Aws!Running
          /\ walk[r] \in WalkRecord /\ Covers(walk[r], ClosedPRs, Facts)
          /\ Aws!Step(r, [walk[r] EXCEPT !.pc = IF fresh = {} THEN "done" ELSE "inserting",
                                         !.fresh = fresh])
      BY <1>0, <1>6 DEF Aws!selectExisting, Aws!Running, Facts
    <2>1. PICK w : w = [walk[r] EXCEPT !.pc = IF fresh = {} THEN "done" ELSE "inserting",
                                       !.fresh = fresh]
      OBVIOUS
    <2>2. /\ w \in WalkRecord /\ w.pc = (IF fresh = {} THEN "done" ELSE "inserting")
          /\ w.fresh = fresh /\ w.base = walk[r].base /\ w.during = walk[r].during
      BY <2>0, <2>1 DEF WalkRecord
    <2>3. Covers(w, ClosedPRs, Facts)
      BY <2>0, <2>2 DEF Covers
    <2>4. w.pc # "new" /\ \A y \in w.fresh : Aws!factText(y) \notin Facts
      BY <2>2
    <2>5. Aws!Step(r, w)
      BY <2>0, <2>1
    <2> HIDE DEF fresh
    <2> QED
      BY <2>0, <2>2, <2>3, <2>4, <2>5, WalkGoesOn
  <1>7. ASSUME NEW r \in Recoveries, Aws!RecoveryFails(r)
        PROVE  RestInv'
    <2>1. PICK w : w = [walk[r] EXCEPT !.pc = "failed"]
      OBVIOUS
    <2>2. /\ r \in Aws!Running /\ Aws!Step(r, w) /\ UNCHANGED history
          /\ w \in WalkRecord /\ w.pc = "failed" /\ w.during = walk[r].during
      BY <1>0, <1>7, <2>1 DEF Aws!RecoveryFails, WalkRecord
    <2>3. Covers(w, ClosedPRs, Facts)
      BY <2>2 DEF Covers
    <2> QED
      BY <2>2, <2>3, WalkGoesOn
  <1>8. ASSUME NEW r \in Recoveries, Aws!insertFresh(r)
        PROVE  RestInv'
    <2>1. PICK w : w = [walk[r] EXCEPT !.pc = "done"]
      OBVIOUS
    <2> DEFINE new == {[fact |-> Aws!factText(y), by |-> r, reply |-> y.id] : y \in walk[r].fresh}
    <2>2. /\ walk[r].pc = "inserting" /\ walk' = [walk EXCEPT ![r] = w]
          /\ history' = history \cup new /\ UNCHANGED <<pr, replies>>
          /\ walk[r] \in WalkRecord /\ Covers(walk[r], ClosedPRs, Facts)
      BY <1>0, <1>8, <2>1 DEF Aws!insertFresh, Aws!Step, Aws!reviewing
    <2>3. /\ w \in WalkRecord /\ w.pc = "done" /\ w.base = walk[r].base /\ w.during = walk[r].during
      BY <2>1, <2>2 DEF WalkRecord
    <2>4. /\ walk'[r] = w /\ \A s \in Recoveries \ {r} : walk'[s] = walk[s]
          /\ \A s \in Recoveries : walk'[s].during = walk[s].during
      BY <1>0, <2>2, <2>3 DEF RestTypeOK
    <2>5. \A k \in new : /\ k.by = r /\ k = [fact |-> k.fact, by |-> k.by, reply |-> k.reply]
                         /\ \E y \in walk[r].fresh : k.fact = Aws!factText(y)
      OBVIOUS
    <2>6. ASSUME NEW y \in walk[r].fresh
          PROVE  \E k \in new : k.fact = Aws!factText(y)
      <3>1. [fact |-> Aws!factText(y), by |-> r, reply |-> y.id] \in new
        OBVIOUS
      <3> QED
        BY <3>1
    <2> HIDE DEF new
    <2>7. \A h \in history : h.by \in Recoveries \ {r}
      BY <1>0, <2>2 DEF RestTypeOK
    <2>8. RestTypeOK'
      <3>1. WalkRecord' = WalkRecord
        BY <2>2 DEF WalkRecord
      <3>2. walk' \in [Recoveries -> WalkRecord]
        BY <1>0, <2>2, <2>3 DEF RestTypeOK
      <3>3. \A h \in history' : /\ h = [fact |-> h.fact, by |-> h.by, reply |-> h.reply]
                                /\ h.by \in Recoveries /\ walk'[h.by].pc = "done"
        BY <1>0, <2>2, <2>3, <2>4, <2>5, <2>7 DEF RestTypeOK
      <3> QED
        BY <1>0, <2>2, <3>1, <3>2, <3>3 DEF RestTypeOK
    <2>9. ClosedPRs' = ClosedPRs /\ Facts \subseteq Facts'
          /\ \A y \in walk[r].fresh : Aws!factText(y) \in Facts'
      BY <2>2, <2>6 DEF ClosedPRs, Facts
    <2>10. \A s \in Recoveries : Covers(walk'[s], ClosedPRs', Facts')
      <3>1. Covers(w, ClosedPRs', Facts')
        BY <2>2, <2>3, <2>9 DEF Covers
      <3>2. \A s \in Recoveries \ {r} : Covers(walk[s], ClosedPRs', Facts')
        BY <1>0, <2>9, CoversMore
      <3> QED
        BY <2>4, <3>1, <3>2
    <2>11. \A s, u \in Recoveries : Overlap(s, u)' <=> Overlap(s, u)
      BY <2>4 DEF Overlap
    <2>12. /\ Aws!Running \subseteq Recoveries /\ Aws!Running' \subseteq Aws!Running
           /\ r \in Aws!Running /\ \A s \in Recoveries : walk[s].pc = "inserting" => s \in Aws!Running
      BY <2>2, <2>3, <2>4 DEF Aws!Running
    <2>13. \A s, u \in Aws!Running' : s # u => Overlap(s, u)'
      BY <2>11, <2>12 DEF RestInv
    <2>14. \A s \in Recoveries : walk'[s].pc = "inserting" =>
             \A y \in walk'[s].fresh, h \in history' : h.fact = Aws!factText(y) => Overlap(h.by, s)'
      <3> SUFFICES ASSUME NEW s \in Recoveries, walk'[s].pc = "inserting",
                          NEW y \in walk'[s].fresh, NEW h \in history', h.fact = Aws!factText(y)
                   PROVE  Overlap(h.by, s)'
        OBVIOUS
      <3>1. s # r /\ walk'[s] = walk[s] /\ s \in Aws!Running
        BY <2>3, <2>4, <2>12
      <3>2. CASE h \in history
        BY <2>7, <2>11, <3>1, <3>2 DEF RestInv
      <3>3. CASE h \in new
        <4>1. h.by = r /\ Overlap(r, s)
          BY <2>5, <2>12, <3>1, <3>3 DEF RestInv
        <4> QED
          BY <2>11, <4>1
      <3> QED
        BY <2>2, <3>2, <3>3
    <2>15. ASSUME NEW h \in history', NEW k \in history', h.fact = k.fact, h.by # k.by
           PROVE  Overlap(h.by, k.by)'
      <3>1. CASE h \in history /\ k \in history
        BY <2>7, <2>11, <2>15, <3>1 DEF RestInv
      <3>2. ASSUME NEW a \in history, NEW b \in new, a.fact = b.fact
            PROVE  Overlap(a.by, b.by)' /\ Overlap(b.by, a.by)'
        <4>1. b.by = r /\ \E y \in walk[r].fresh : a.fact = Aws!factText(y)
          BY <2>5, <3>2
        <4>2. Overlap(a.by, r)
          BY <2>2, <4>1 DEF RestInv
        <4>3. Overlap(r, a.by)
          BY <4>2 DEF Overlap
        <4> QED
          BY <2>7, <2>11, <4>1, <4>2, <4>3
      <3>3. ~(h \in new /\ k \in new)
        BY <2>5, <2>15
      <3> QED
        BY <2>2, <2>15, <3>1, <3>2, <3>3
    <2>16. \A h, k \in history' : h.fact = k.fact /\ h.by # k.by => Overlap(h.by, k.by)'
      BY <2>15
    <2> QED
      BY <2>8, <2>10, <2>13, <2>14, <2>16 DEF RestInv, Aws!factText
  <1>9. ASSUME \/ \E m \in Messages : Aws!Post(m)
               \/ \E q \in snsReq : \/ Aws!verifySnsSignature(q) \/ Aws!idempotency(q)
                                    \/ Aws!forbidden(q) \/ Aws!confirmSubscription(q)
                                    \/ Aws!handleNotification(q)
                                    \/ Aws!handleCodecommitFeedbackCommand(q) \/ Aws!Fail(q)
               \/ \E p \in PRs, v \in Reviews : Aws!getPR(v, p)
               \/ \E v \in Reviews : \/ Aws!getDiff(v) \/ Aws!runReview(v) \/ Aws!postReview(v)
                                     \/ Aws!postComment(v) \/ Aws!applyApprovalState(v) \/ Aws!Abort(v)
        PROVE  UNCHANGED <<pr, replies, walk, history>>
    <2>1. CASE \E m \in Messages : Aws!Post(m)
      BY <2>1 DEF Aws!Post, Aws!reviewing, Aws!recovering
    <2>2. CASE \E q \in snsReq : \/ Aws!verifySnsSignature(q) \/ Aws!idempotency(q)
                                 \/ Aws!forbidden(q) \/ Aws!confirmSubscription(q)
                                 \/ Aws!handleNotification(q)
                                 \/ Aws!handleCodecommitFeedbackCommand(q) \/ Aws!Fail(q)
      BY <2>2 DEF Aws!verifySnsSignature, Aws!idempotency, Aws!forbidden, Aws!confirmSubscription,
                  Aws!handleNotification, Aws!handleCodecommitFeedbackCommand, Aws!Fail,
                  Aws!reviewing, Aws!recovering
    <2>3. CASE \E p \in PRs, v \in Reviews : Aws!getPR(v, p)
      BY <2>3 DEF Aws!getPR, Aws!Progress, Aws!recovering
    <2>4. CASE \E v \in Reviews : \/ Aws!getDiff(v) \/ Aws!runReview(v) \/ Aws!postReview(v)
                                  \/ Aws!postComment(v) \/ Aws!applyApprovalState(v) \/ Aws!Abort(v)
      BY <2>4 DEF Aws!getDiff, Aws!runReview, Aws!postReview, Aws!postComment,
                  Aws!applyApprovalState, Aws!Abort, Aws!Progress, Aws!recovering
    <2> QED
      BY <1>9, <2>1, <2>2, <2>3, <2>4
  <1>10. CASE UNCHANGED awsVars
    BY <1>0, <1>10, <1>u DEF awsVars, RestTypeOK
  <1>11. ASSUME UNCHANGED <<pr, replies, walk, history>>
         PROVE  RestInv'
    BY <1>0, <1>11, <1>u DEF RestTypeOK
  <1> QED
    BY <1>1, <1>2, <1>3, <1>4, <1>5, <1>6, <1>7, <1>8, <1>9, <1>10, <1>11 DEF Aws!Next

(* A recovery that ends without an error has restored every authorised     *)
(* reply that was there when it began, and makes a fact's second row only  *)
(* for a second reply or while another recovery ran, for any repository,   *)
(* any number of recoveries and whatever is closed meanwhile.              *)
THEOREM RecoveriesRestore == HostSpec => []CodeCommitFeedbackRestored
  <1> DEFINE I == part = "codecommit" => BackInv /\ RestInv
  <1>1. HostInit => I
    <2> SUFFICES ASSUME HostInit, part = "codecommit"
                 PROVE  RestInv
      BY BackInit DEF HostInit
    <2>1. Aws!Init
      BY DEF HostInit
    <2>2. Aws!NoWalk \in WalkRecord /\ Aws!NoWalk.pc = "new"
      BY DEF Aws!NoWalk, WalkRecord
    <2>3. \A r \in Recoveries : walk[r] = Aws!NoWalk
      BY <2>1 DEF Aws!Init
    <2>4. RestTypeOK
      BY <2>1, <2>2 DEF Aws!Init, RestTypeOK
    <2>5. \A r \in Recoveries : Covers(walk[r], ClosedPRs, Facts)
      BY <2>2, <2>3 DEF Covers
    <2>6. Aws!Running = {} /\ history = {}
      BY <2>1, <2>2, <2>3 DEF Aws!Running, Aws!Init
    <2> QED
      BY <2>4, <2>5, <2>6 DEF RestInv
  <1>2. I /\ [HostNext]_hostVars => I'
    BY PartSteps, BackStep, RestStep
  <1>3. I => CodeCommitFeedbackRestored
    <2> SUFFICES ASSUME RestInv
                 PROVE  Aws!FeedbackRestored
      BY DEF CodeCommitFeedbackRestored
    <2>1. ASSUME NEW r \in Recoveries, walk[r].pc = "done", NEW y \in walk[r].base, Aws!resolves(y)
          PROVE  \E h \in history : h.fact = Aws!factText(y)
      <3>1. Aws!factText(y) \in Facts
        BY <2>1 DEF RestInv, Covers
      <3> QED
        BY <3>1 DEF Facts
    <2>2. ASSUME NEW h \in history, NEW k \in history, h # k, h.fact = k.fact
          PROVE  \/ h.by = k.by /\ h.reply # k.reply
                 \/ h.by \in walk[k.by].during \/ k.by \in walk[h.by].during
      <3>1. CASE h.by = k.by
        BY <2>2, <3>1 DEF RestInv, RestTypeOK
      <3>2. CASE h.by # k.by
        BY <2>2, <3>2 DEF RestInv, Overlap
      <3> QED
        BY <3>1, <3>2
    <2> QED
      BY <2>1, <2>2 DEF Aws!FeedbackRestored
  <1> QED
    BY <1>1, <1>2, <1>3, PTL DEF HostSpec, hostVars

-----------------------------------------------------------------------------
(* The row of the installation. The inductive invariant: events are        *)
(* numbered as GitHub sends them, each after the last one applied is on    *)
(* its way as long as none was lost, and the newest one, if it is, leads   *)
(* to the state GitHub is in; with none on its way the row says what       *)
(* GitHub says, and a suspension that comes next finds a row.              *)

Result(action) ==
    CASE action \in {"created", "unsuspend"} -> "active"
      [] action = "suspend" -> "suspended"
      [] OTHER -> "deleted"
RowOf(state) == IF state = "deleted" THEN "none" ELSE state

HookTypeOK ==
    /\ github \in {"none", "active", "suspended", "deleted"}
    /\ inst \in {"none", "active", "suspended"}
    /\ events \in Nat /\ applied \in Nat /\ applied <= events
    /\ hooks \subseteq [n : Nat, action : {"created", "suspend", "unsuspend", "deleted"}]

Sequenced ==
    /\ \A h \in hooks : 1 <= h.n /\ h.n <= events /\ h.n # applied
    /\ \A h, k \in hooks : h.n = k.n => h = k
    /\ \A h \in hooks : h.n = events => github = Result(h.action)
    /\ \A h, k \in hooks : h.n = k.n + 1 /\ h.action = "suspend" => Result(k.action) = "active"
    /\ events = 0 <=> github = "none"
    /\ setup = "fetched" => github # "none"

InStep ==
    /\ \A n \in Nat : applied < n /\ n <= events => \E h \in hooks : h.n = n
    /\ hooks = {} => inst = RowOf(github)
    /\ \A h \in hooks : h.action = "suspend" /\ h.n = applied + 1
                          /\ (\A k \in hooks : k.n > applied) => inst # "none"
    /\ setup = "fetched" /\ hooks = {} => github # "deleted"

HookInv == HookTypeOK /\ Sequenced /\ (excuse = {} => InStep)

githubVars == <<github, events, hooks, inst, setup, applied, excuse>>

(* GitHub changes the installation and sends an event.                     *)
LEMMA ChangeKeeps == HookInv /\ Change => HookInv'
  <1> SUFFICES ASSUME HookInv, Change
               PROVE  HookInv'
    OBVIOUS
  <1>0. HookTypeOK /\ Sequenced /\ (excuse = {} => InStep)
    BY DEF HookInv
  <1>1. PICK a \in Actions(github) : github' = a[2] /\ hooks' = hooks \cup {[n |-> events + 1, action |-> a[1]]}
    BY DEF Change
  <1>2. PICK x : x = [n |-> events + 1, action |-> a[1]]
    OBVIOUS
  <1>3. events' = events + 1 /\ UNCHANGED <<inst, setup, applied, excuse>> /\ hooks' = hooks \cup {x}
    BY <1>1, <1>2 DEF Change
  <1>4. /\ a[1] \in {"created", "suspend", "unsuspend", "deleted"} /\ a[2] = Result(a[1])
        /\ a[2] \in {"active", "suspended", "deleted"}
        /\ a[1] = "suspend" => github = "active"
    <2>1. CASE github = "none"
      BY <1>1, <2>1 DEF Actions, Result
    <2>2. CASE github = "active"
      BY <1>1, <2>2 DEF Actions, Result
    <2>3. CASE github = "suspended"
      BY <1>1, <2>3 DEF Actions, Result
    <2>4. CASE github = "deleted"
      BY <1>1, <2>4 DEF Actions
    <2> QED
      BY <1>0, <2>1, <2>2, <2>3, <2>4 DEF HookTypeOK
  <1>5. x.n = events + 1 /\ x.action = a[1]
    BY <1>2
  <1>6. events \in Nat /\ applied \in Nat /\ applied <= events /\ \A h \in hooks : h.n \in Nat /\ h.n <= events
    BY <1>0 DEF HookTypeOK, Sequenced
  <1>7. HookTypeOK'
    BY <1>0, <1>1, <1>2, <1>3, <1>4, <1>6 DEF HookTypeOK
  <1>8. Sequenced'
    <2>1. \A h \in hooks' : 1 <= h.n /\ h.n <= events' /\ h.n # applied'
      BY <1>0, <1>3, <1>5, <1>6 DEF Sequenced
    <2>2. \A h, k \in hooks' : h.n = k.n => h = k
      BY <1>0, <1>3, <1>5, <1>6 DEF Sequenced
    <2>3. \A h \in hooks' : h.n = events' => github' = Result(h.action)
      BY <1>1, <1>3, <1>4, <1>5, <1>6
    <2>4. ASSUME NEW h \in hooks', NEW k \in hooks', h.n = k.n + 1, h.action = "suspend"
          PROVE  Result(k.action) = "active"
      <3>1. k \in hooks
        BY <1>3, <1>5, <1>6, <2>4
      <3>2. CASE h \in hooks
        BY <1>0, <2>4, <3>1, <3>2 DEF Sequenced
      <3>3. CASE h = x
        <4>1. k.n = events /\ github = "active"
          BY <1>4, <1>5, <1>6, <2>4, <3>1, <3>3
        <4> QED
          BY <1>0, <3>1, <4>1 DEF Sequenced
      <3> QED
        BY <1>3, <3>2, <3>3
    <2>5. events' # 0 /\ github' # "none"
      BY <1>1, <1>3, <1>4, <1>6
    <2> QED
      BY <2>1, <2>2, <2>3, <2>4, <2>5 DEF Sequenced, Result
  <1>9. ASSUME excuse' = {}
        PROVE  InStep'
    <2>0. InStep
      BY <1>0, <1>3, <1>9
    <2>1. \A n \in Nat : applied' < n /\ n <= events' => \E h \in hooks' : h.n = n
      BY <1>3, <1>5, <1>6, <2>0 DEF InStep
    <2>2. ASSUME NEW h \in hooks', h.action = "suspend", h.n = applied + 1,
                 \A k \in hooks' : k.n > applied
          PROVE  inst # "none"
      <3>1. CASE h \in hooks
        BY <1>3, <2>0, <2>2, <3>1 DEF InStep
      <3>2. CASE h = x
        <4>1. hooks = {}
          BY <1>3, <1>5, <1>6, <2>2, <3>2
        <4>2. inst = RowOf(github) /\ github = "active"
          BY <1>4, <1>5, <2>0, <2>2, <3>2, <4>1 DEF InStep
        <4> QED
          BY <4>2 DEF RowOf
      <3> QED
        BY <1>3, <3>1, <3>2
    <2>3. hooks' # {}
      BY <1>3
    <2> QED
      BY <1>3, <2>1, <2>2, <2>3 DEF InStep
  <1> QED
    BY <1>7, <1>8, <1>9 DEF HookInv

(* An event is applied to the row.                                         *)
LEMMA HandleKeeps ==
    ASSUME HookInv, NEW h \in hooks, handleInstallationEvent(h)
    PROVE  HookInv'
  <1>0. HookTypeOK /\ Sequenced /\ (excuse = {} => InStep)
    BY DEF HookInv
  <1>1. /\ inst' = InstAfter(h.action) /\ hooks' = hooks \ {h}
        /\ applied' = IF h.n > applied THEN h.n ELSE applied
        /\ excuse' = excuse \cup (IF h.n < applied THEN {"reordered"} ELSE {})
                            \cup (IF setup = "fetched" THEN {"setup"} ELSE {})
        /\ UNCHANGED <<github, events, setup>>
    BY DEF handleInstallationEvent
  <1>2. /\ events \in Nat /\ applied \in Nat /\ applied <= events
        /\ \A k \in hooks : k.n \in Nat /\ 1 <= k.n /\ k.n <= events /\ k.n # applied
        /\ h.action \in {"created", "suspend", "unsuspend", "deleted"}
    BY <1>0 DEF HookTypeOK, Sequenced
  <1>3. InstAfter(h.action) \in {"none", "active", "suspended"}
    BY <1>2 DEF InstAfter
  <1>4. HookTypeOK'
    BY <1>0, <1>1, <1>2, <1>3 DEF HookTypeOK
  <1>5. Sequenced'
    <2>1. \A k \in hooks' : k.n # h.n
      BY <1>0, <1>1 DEF Sequenced
    <2> QED
      BY <1>0, <1>1, <1>2, <2>1 DEF Sequenced, Result
  <1>6. ASSUME excuse' = {}
        PROVE  InStep'
    <2>0. excuse = {} /\ setup # "fetched" /\ ~(h.n < applied)
      BY <1>1, <1>6
    <2>1. InStep /\ h.n > applied /\ applied' = h.n
      BY <1>0, <1>1, <1>2, <2>0
    <2>2. \A n \in Nat : applied' < n /\ n <= events' => \E k \in hooks' : k.n = n
      <3> SUFFICES ASSUME NEW n \in Nat, h.n < n, n <= events
                   PROVE  \E k \in hooks' : k.n = n
        BY <1>1, <2>1
      <3>1. PICK k \in hooks : k.n = n
        BY <1>2, <2>1 DEF InStep
      <3> QED
        BY <1>1, <1>2, <3>1
    <2>3. ASSUME hooks' = {}
          PROVE  inst' = RowOf(github)
      <3>1. hooks = {h}
        BY <1>1, <2>3
      <3>2. PICK k \in hooks : k.n = events
        BY <1>2, <2>1 DEF InStep
      <3>3. PICK j \in hooks : j.n = applied + 1
        BY <1>2, <2>1 DEF InStep
      <3>4. h.n = events /\ h.n = applied + 1 /\ github = Result(h.action)
        BY <1>0, <3>1, <3>2, <3>3 DEF Sequenced
      <3>5. h.action = "suspend" => inst # "none"
        BY <2>1, <3>1, <3>4 DEF InStep
      <3> QED
        BY <1>1, <1>2, <3>4, <3>5 DEF InstAfter, Result, RowOf
    <2>4. ASSUME NEW k \in hooks', k.action = "suspend", k.n = applied' + 1
          PROVE  inst' # "none"
      <3>1. Result(h.action) = "active"
        BY <1>0, <1>1, <2>1, <2>4 DEF Sequenced
      <3> QED
        BY <1>1, <1>2, <3>1 DEF Result, InstAfter
    <2> QED
      BY <1>1, <2>0, <2>2, <2>3, <2>4 DEF InStep
  <1> QED
    BY <1>4, <1>5, <1>6 DEF HookInv

(* Every step of the onboarding preserves HookInv.                         *)
LEMMA HookStep == HookInv /\ (Next \/ UNCHANGED vars) => HookInv'
  <1> SUFFICES ASSUME HookInv, Next \/ UNCHANGED vars
               PROVE  HookInv'
    OBVIOUS
  <1>0. HookTypeOK /\ Sequenced /\ (excuse = {} => InStep)
    BY DEF HookInv
  <1>u. ASSUME UNCHANGED githubVars
        PROVE  HookInv'
    BY <1>0, <1>u DEF githubVars, HookInv, HookTypeOK, Sequenced, InStep, Result, RowOf
  <1>1. ASSUME NEW h \in hooks, Lose(h)
        PROVE  HookInv'
    <2>1. hooks' = hooks \ {h} /\ excuse' # {} /\ UNCHANGED <<github, events, inst, setup, applied>>
      BY <1>1 DEF Lose
    <2>2. HookTypeOK'
      BY <1>0, <2>1 DEF HookTypeOK
    <2>3. Sequenced'
      BY <1>0, <2>1 DEF Sequenced, Result
    <2> QED
      BY <2>1, <2>2, <2>3 DEF HookInv
  <1>2. ASSUME installRedirect \/ setupRefused \/ fetchInstallation
        PROVE  HookInv'
    <2>1. /\ UNCHANGED <<github, events, hooks, inst, applied, excuse>>
          /\ setup' = "fetched" => github \in {"active", "suspended"}
      BY <1>2 DEF installRedirect, setupRefused, fetchInstallation
    <2>2. HookTypeOK'
      BY <1>0, <2>1 DEF HookTypeOK
    <2>3. Sequenced'
      BY <1>0, <2>1 DEF Sequenced, Result
    <2>4. excuse' = {} => InStep'
      BY <1>0, <2>1 DEF InStep, RowOf
    <2> QED
      BY <2>2, <2>3, <2>4 DEF HookInv
  <1>3. ASSUME setupUpsert
        PROVE  HookInv'
    <2>1. /\ setup = "fetched" /\ setup' = "done" /\ UNCHANGED <<github, events, hooks, applied, excuse>>
          /\ inst' = IF inst = "none" THEN "active" ELSE inst
      BY <1>3 DEF setupUpsert
    <2>2. HookTypeOK'
      BY <1>0, <2>1 DEF HookTypeOK
    <2>3. Sequenced'
      BY <1>0, <2>1 DEF Sequenced, Result
    <2>4. ASSUME excuse' = {}
          PROVE  InStep'
      <3>1. InStep
        BY <1>0, <2>1, <2>4
      <3>2. hooks = {} => inst # "none" /\ inst = RowOf(github)
        <4>1. hooks = {} => inst = RowOf(github) /\ github # "deleted" /\ github # "none"
          BY <1>0, <2>1, <3>1 DEF InStep, Sequenced
        <4> QED
          BY <4>1 DEF RowOf
      <3>3. inst' # "none"
        BY <2>1
      <3> QED
        BY <2>1, <3>1, <3>2, <3>3 DEF InStep, RowOf
    <2> QED
      BY <2>2, <2>3, <2>4 DEF HookInv
  <1>4. ASSUME unchangedGithub
        PROVE  HookInv'
    BY <1>4, <1>u DEF unchangedGithub, githubVars
  <1>5. ASSUME \/ ListingFails \/ checkInstallation \/ getInstallationToken \/ TokenExpires
               \/ listInstallationRepos \/ accessibleRepos
               \/ \E q \in Calls : \/ OtherClient(q) \/ createRepo(q) \/ selectExisting(q)
                                   \/ registerOne(q) \/ answerBulk(q)
                                   \/ handleSubmit(q) \/ handleSubmitNew(q)
               \/ \E at \in {"github", "new"} : Open(at)
               \/ \E n \in scene.names : toggleRepo(n) \/ setName(n)
               \/ toggleSelectAll \/ onSuccess \/ onError \/ Leave \/ AnswerDialog
        PROVE  unchangedGithub
    BY <1>5 DEF ListingFails, checkInstallation, getInstallationToken, TokenExpires,
                listInstallationRepos, accessibleRepos, OtherClient, createRepo, selectExisting,
                registerOne, answerBulk, handleSubmit, handleSubmitNew, Open, toggleRepo, setName,
                toggleSelectAll, onSuccess, onError, Leave, AnswerDialog
  <1>6. CASE UNCHANGED vars
    BY <1>6, <1>u DEF vars, githubVars
  <1> QED
    BY <1>1, <1>2, <1>3, <1>4, <1>5, <1>6, ChangeKeeps, HandleKeeps DEF Next

-----------------------------------------------------------------------------
(* Registration. The inductive invariant: two requests that were being     *)
(* served at the same time know it of each other; a name that a bulk       *)
(* request has still to insert and did not find has rows only of such      *)
(* requests or of POST /repos; and as long as it met no error, the names   *)
(* it has passed, and those it found, are registered.                      *)

CallRecord == [by : {None, "api", "page"}, kind : {"none", "bulk", "create"}, names : Seq(Names),
               pc : {"new", "sent", "inserting", "answered"}, known : SUBSET Names,
               left : Nat, created : Nat, already : Nat, errors : Nat, status : Nat,
               during : SUBSET Calls]
PageRecord == [at : {"away", "github", "new"}, data : (SUBSET Names) \cup {None},
               selected : SUBSET Names, name : Names \cup {None}, sent : Calls \cup {None},
               submitted : Calls \cup {None}, asked : BOOLEAN]

\* Which request has registered which name.
Entries == {<<r.name, r.by[1]>> : r \in rows}
NamesIn(entries) == {e[1] : e \in entries}

Knows(p, q) == p \in call[q].during \/ q \in call[p].during
Bulk(q) == call[q].kind # "create"

\* What request q has done so far, with these entries in the table.
Served(q, entries) ==
    LET c == call[q] IN
    /\ c.pc # "new" => c.kind # "none"
    /\ c.kind = "create" => Len(c.names) = 1
    /\ c.pc = "inserting" => c.left \in 1..Len(c.names) + 1 /\ c.known \subseteq NamesIn(entries)
    /\ c.pc = "inserting" /\ c.errors = 0 =>
         \A i \in 1..Len(c.names) : i < c.left => c.names[i] \in NamesIn(entries)
    /\ c.pc = "answered" /\ c.kind = "bulk" /\ c.errors = 0 =>
         \A i \in 1..Len(c.names) : c.names[i] \in NamesIn(entries)
    /\ c.pc = "inserting" =>
         \A i \in 1..Len(c.names), e \in entries :
            c.left <= i /\ c.names[i] \notin c.known /\ e[1] = c.names[i] /\ e[2] # q /\ Bulk(e[2])
              => Knows(e[2], q)

RegTypeOK ==
    /\ scene \in Scenes
    /\ call \in [Calls -> CallRecord]
    /\ Entries \subseteq Names \X Calls

RegInv ==
    /\ RegTypeOK
    /\ \A e \in Entries : call[e[2]].pc \notin {"new", "sent"}
    /\ \A q \in Calls : Served(q, Entries)
    /\ \A p, q \in Unfinished : p # q => Knows(p, q)
    /\ \A e, f \in Entries : e[1] = f[1] /\ e[2] # f[2] /\ Bulk(e[2]) /\ Bulk(f[2])
                               => Knows(e[2], f[2])

RowInv == rows \subseteq [name : Names, by : Calls \X Nat, linked : BOOLEAN]

PageInv ==
    /\ page \in PageRecord
    /\ page.sent # None => call[page.sent].pc # "new"
    /\ page.submitted # None =>
         /\ call[page.submitted].pc = "answered"
         /\ call[page.submitted].kind = "bulk" /\ call[page.submitted].errors = 0

(* The names of the entries are the registered names.                      *)
LEMMA RegisteredNames == Registered = NamesIn(Entries)
  <1>1. ASSUME NEW r \in rows
        PROVE  r.name \in NamesIn(Entries)
    <2>1. <<r.name, r.by[1]>> \in Entries
      BY DEF Entries
    <2>2. <<r.name, r.by[1]>>[1] = r.name
      OBVIOUS
    <2> QED
      BY <2>1, <2>2 DEF NamesIn
  <1>2. ASSUME NEW e \in Entries
        PROVE  e[1] \in Registered
    BY DEF Entries, Registered
  <1> QED
    BY <1>1, <1>2 DEF Registered, NamesIn

(* The names of a selection can be put in a sequence.                      *)
LEMMA SelectionSequence ==
    ASSUME NEW S \in SUBSET Names
    PROVE  SetToSeq(S) \in Seq(Names)
  <1>1. IsFiniteSet(S)
    BY NamesAssumption, FS_Subset
  <1>2. Cardinality(S) \in Nat /\ ExistsBijection(1..Cardinality(S), S)
    BY <1>1, FS_CardinalityType
  <1>3. \E f \in [1..Cardinality(S) -> S] : IsInjective(f)
    BY <1>2 DEF ExistsBijection, Bijection, Injection
  <1>4. SetToSeq(S) \in [1..Cardinality(S) -> S]
    BY <1>3 DEF SetToSeq
  <1> QED
    BY <1>2, <1>4

(* The server's progress with a request stays a record of a request.       *)
LEMMA CallProgress ==
    ASSUME NEW d \in CallRecord, NEW l \in Nat, NEW k \in Nat
    PROVE  /\ [d EXCEPT !.pc = "answered", !.status = k] \in CallRecord
           /\ [d EXCEPT !.left = l, !.already = k] \in CallRecord
           /\ [d EXCEPT !.left = l, !.created = k] \in CallRecord
           /\ [d EXCEPT !.left = l, !.errors = k] \in CallRecord
  BY DEF CallRecord

(* What a request of the table's current state may become.                 *)
LEMMA CallEffect ==
    ASSUME RegInv, NEW q \in Calls, NEW c \in CallRecord, call' = [call EXCEPT ![q] = c],
           UNCHANGED scene
    PROVE  /\ call' \in [Calls -> CallRecord] /\ call'[q] = c
           /\ \A p \in Calls \ {q} : call'[p] = call[p]
           /\ scene' \in Scenes
  BY DEF RegInv, RegTypeOK

(* A request is served further: q keeps its kind, its names and the        *)
(* requests it overlaps, entries are added only by q, and q's own part of  *)
(* the invariant is given.                                                 *)
LEMMA ServedFurther ==
    ASSUME RegInv, NEW q \in Calls, NEW c \in CallRecord, call' = [call EXCEPT ![q] = c],
           UNCHANGED scene, q \in Unfinished, c.pc \in {"inserting", "answered"},
           c.kind = call[q].kind, c.during = call[q].during,
           Entries' \subseteq Names \X Calls, Entries \subseteq Entries',
           \A e \in Entries' \ Entries : e[2] = q,
           Served(q, Entries)',
           \A e \in Entries' \ Entries, f \in Entries :
              e[1] = f[1] /\ f[2] # q /\ Bulk(q) /\ Bulk(f[2]) => Knows(f[2], q)
    PROVE  RegInv'
  <1>1. /\ call' \in [Calls -> CallRecord] /\ call'[q] = c
        /\ \A p \in Calls \ {q} : call'[p] = call[p]
        /\ scene' \in Scenes
    BY CallEffect
  <1>2. \A p \in Calls : call'[p].during = call[p].during /\ call'[p].kind = call[p].kind
    BY <1>1
  <1>3. \A p, r \in Calls : (Knows(p, r)' <=> Knows(p, r)) /\ (Bulk(p)' <=> Bulk(p))
    BY <1>2 DEF Knows, Bulk
  <1>4. Entries \subseteq Names \X Calls /\ \A e \in Entries' : e[2] \in Calls
    BY DEF RegInv, RegTypeOK
  <1>5. RegTypeOK'
    BY <1>1 DEF RegTypeOK
  <1>6. \A e \in Entries' : call'[e[2]].pc \notin {"new", "sent"}
    BY <1>1, <1>4 DEF RegInv
  <1>7. Unfinished' \subseteq Unfinished /\ Unfinished \subseteq Calls
    BY <1>1 DEF Unfinished
  <1>8. \A p, r \in Unfinished' : p # r => Knows(p, r)'
    BY <1>3, <1>7 DEF RegInv
  <1>9. ASSUME NEW p \in Calls \ {q}
        PROVE  Served(p, Entries)'
    <2>1. Served(p, Entries) /\ call'[p] = call[p]
      BY <1>1 DEF RegInv
    <2>2. NamesIn(Entries) \subseteq NamesIn(Entries')
      BY DEF NamesIn
    <2>3. call[p].pc = "inserting" => p \in Unfinished
      BY DEF Unfinished
    <2>4. ASSUME call[p].pc = "inserting", NEW i \in 1..Len(call[p].names), NEW e \in Entries',
                 call[p].left <= i, call[p].names[i] \notin call[p].known, e[1] = call[p].names[i],
                 e[2] # p, Bulk(e[2])'
          PROVE  Knows(e[2], p)'
      <3>0. e[2] \in Calls
        BY <1>4
      <3>1. CASE e \in Entries
        <4>1. Bulk(e[2])
          BY <1>3, <2>4, <3>0
        <4>2. Knows(e[2], p)
          BY <2>1, <2>4, <3>1, <4>1 DEF Served
        <4> QED
          BY <1>3, <3>0, <4>2
      <3>2. CASE e \notin Entries
        <4>1. e[2] = q /\ Knows(q, p)
          BY <2>3, <2>4, <3>2 DEF RegInv
        <4> QED
          BY <1>3, <4>1
      <3> QED
        BY <3>1, <3>2
    <2>5. /\ call[p].pc # "new" => call[p].kind # "none"
          /\ call[p].kind = "create" => Len(call[p].names) = 1
          /\ call[p].pc = "inserting" => call[p].left \in 1..Len(call[p].names) + 1
                                         /\ call[p].known \subseteq NamesIn(Entries')
          /\ call[p].pc = "inserting" /\ call[p].errors = 0 =>
               \A i \in 1..Len(call[p].names) : i < call[p].left => call[p].names[i] \in NamesIn(Entries')
          /\ call[p].pc = "answered" /\ call[p].kind = "bulk" /\ call[p].errors = 0 =>
               \A i \in 1..Len(call[p].names) : call[p].names[i] \in NamesIn(Entries')
      BY <2>1, <2>2 DEF Served
    <2> QED
      BY <2>1, <2>4, <2>5 DEF Served, NamesIn
  <1>10. ASSUME NEW e \in Entries', NEW f \in Entries', e[1] = f[1], e[2] # f[2],
                Bulk(e[2])', Bulk(f[2])'
         PROVE  Knows(e[2], f[2])'
    <2>0. e[2] \in Calls /\ f[2] \in Calls /\ Bulk(e[2]) /\ Bulk(f[2])
      BY <1>3, <1>4, <1>10
    <2>1. CASE e \in Entries /\ f \in Entries
      BY <1>3, <1>10, <2>0, <2>1 DEF RegInv
    <2>2. CASE e \notin Entries
      <3>1. e[2] = q /\ f \in Entries
        BY <1>10, <2>2
      <3>2. Knows(f[2], q)
        BY <1>10, <2>0, <2>2, <3>1
      <3>3. Knows(q, f[2])
        BY <3>2 DEF Knows
      <3> QED
        BY <1>3, <2>0, <3>1, <3>3
    <2>3. CASE f \notin Entries
      <3>1. f[2] = q /\ e \in Entries
        BY <1>10, <2>3
      <3>2. Knows(e[2], q)
        BY <1>10, <2>0, <2>3, <3>1
      <3> QED
        BY <1>3, <2>0, <3>1, <3>2
    <2> QED
      BY <2>1, <2>2, <2>3
  <1> QED
    BY <1>5, <1>6, <1>8, <1>9, <1>10 DEF RegInv

(* A request is sent: it knows the requests being served.                  *)
LEMMA SentKeeps ==
    ASSUME RegInv, NEW q \in Calls, NEW by \in {"api", "page"}, NEW kd \in {"bulk", "create"},
           NEW names \in Seq(Names), kd = "create" => Len(names) = 1,
           Sent(q, by, kd, names), UNCHANGED <<scene, rows>>
    PROVE  RegInv'
  <1>1. PICK c : c = [NoCall EXCEPT !.by = by, !.kind = kd, !.names = names, !.pc = "sent",
                                    !.during = Unfinished]
    OBVIOUS
  <1>2. call' = [call EXCEPT ![q] = c] /\ call[q].pc = "new"
    BY <1>1 DEF Sent
  <1>3. c \in CallRecord /\ c.pc = "sent" /\ c.kind = kd /\ c.names = names /\ c.during = Unfinished
    <2>1. Unfinished \subseteq Calls
      BY DEF Unfinished
    <2>2. c = [by |-> by, kind |-> kd, names |-> names, pc |-> "sent", known |-> {}, left |-> 0,
               created |-> 0, already |-> 0, errors |-> 0, status |-> 0, during |-> Unfinished]
      BY <1>1 DEF NoCall
    <2> QED
      BY <2>1, <2>2 DEF CallRecord
  <1>4. /\ call' \in [Calls -> CallRecord] /\ call'[q] = c
        /\ \A p \in Calls \ {q} : call'[p] = call[p]
        /\ scene' \in Scenes
    BY <1>2, <1>3, CallEffect
  <1>5. Entries' = Entries /\ Entries \subseteq Names \X Calls /\ \A e \in Entries : e[2] \in Calls \ {q}
    BY <1>2 DEF Entries, RegInv, RegTypeOK
  <1>6. RegTypeOK'
    BY <1>4, <1>5 DEF RegTypeOK
  <1>7. \A e \in Entries' : call'[e[2]].pc \notin {"new", "sent"}
    BY <1>4, <1>5 DEF RegInv
  <1>8. \A p, r \in Calls \ {q} : (Knows(p, r)' <=> Knows(p, r)) /\ (Bulk(p)' <=> Bulk(p))
    BY <1>4 DEF Knows, Bulk
  <1>9. Unfinished' = Unfinished \cup {q} /\ q \notin Unfinished /\ Unfinished \subseteq Calls
    BY <1>2, <1>3, <1>4 DEF Unfinished
  <1>10. \A p, r \in Unfinished' : p # r => Knows(p, r)'
    <2>1. \A p \in Unfinished : Knows(p, q)' /\ Knows(q, p)'
      BY <1>3, <1>4 DEF Knows
    <2>2. \A p, r \in Unfinished : p # r => Knows(p, r)'
      BY <1>8, <1>9 DEF RegInv
    <2> QED
      BY <1>9, <2>1, <2>2
  <1>11. Served(q, Entries)'
    BY <1>3, <1>4 DEF Served
  <1>12. ASSUME NEW p \in Calls \ {q}
         PROVE  Served(p, Entries)'
    <2>1. Served(p, Entries) /\ call'[p] = call[p]
      BY <1>4 DEF RegInv
    <2> QED
      BY <1>5, <1>8, <2>1 DEF Served, NamesIn
  <1>13. \A e, f \in Entries' : e[1] = f[1] /\ e[2] # f[2] /\ Bulk(e[2])' /\ Bulk(f[2])'
                                  => Knows(e[2], f[2])'
    BY <1>5, <1>8 DEF RegInv
  <1> QED
    BY <1>6, <1>7, <1>10, <1>11, <1>12, <1>13 DEF RegInv

(* Steps that leave the requests and the names in the table alone.         *)
LEMMA RegStands == RegInv /\ UNCHANGED <<scene, call>> /\ Entries' = Entries => RegInv'
  <1> SUFFICES ASSUME RegInv, UNCHANGED <<scene, call>>, Entries' = Entries
               PROVE  RegInv'
    OBVIOUS
  <1>1. RegTypeOK'
    BY DEF RegInv, RegTypeOK
  <1>2. \A p, q : (Knows(p, q)' <=> Knows(p, q)) /\ (Bulk(p)' <=> Bulk(p))
    BY DEF Knows, Bulk
  <1>3. \A q \in Calls : Served(q, Entries)'
    BY <1>2 DEF RegInv, Served, NamesIn
  <1>4. \A p, q \in Unfinished' : p # q => Knows(p, q)'
    <2>1. Unfinished' = Unfinished
      BY DEF Unfinished
    <2> QED
      BY <1>2, <2>1 DEF RegInv
  <1>5. \A e \in Entries' : call'[e[2]].pc \notin {"new", "sent"}
    BY DEF RegInv
  <1>6. \A e, f \in Entries' : e[1] = f[1] /\ e[2] # f[2] /\ Bulk(e[2])' /\ Bulk(f[2])'
                                 => Knows(e[2], f[2])'
    BY <1>2 DEF RegInv
  <1> QED
    BY <1>1, <1>3, <1>4, <1>5, <1>6 DEF RegInv

(* POST /repos inserts its row without looking.                            *)
LEMMA CreateKeeps ==
    ASSUME RegInv, NEW q \in Calls, createRepo(q)
    PROVE  RegInv'
  <1>1. PICK c : c = [call[q] EXCEPT !.pc = "answered", !.status = 201]
    OBVIOUS
  <1>2. PICK x : x = [name |-> call[q].names[1], by |-> <<q, 1>>, linked |-> FALSE]
    OBVIOUS
  <1>3. /\ call[q].pc = "sent" /\ call[q].kind = "create" /\ UNCHANGED scene
        /\ call' = [call EXCEPT ![q] = c] /\ rows' = rows \cup {x}
    BY <1>1, <1>2 DEF createRepo, unchangedGithub
  <1>4. call[q] \in CallRecord /\ Served(q, Entries)
    BY DEF RegInv, RegTypeOK
  <1>5. /\ c \in CallRecord /\ c.pc = "answered" /\ c.kind = "create" /\ c.names = call[q].names
        /\ c.during = call[q].during
    <2>0. PICK s \in Nat : s = 201
      OBVIOUS
    <2>1. c \in CallRecord
      <3>1. [call[q] EXCEPT !.pc = "answered", !.status = s] \in CallRecord
        BY <1>4, CallProgress, Zenon
      <3>2. c = [call[q] EXCEPT !.pc = "answered", !.status = s]
        BY <1>1, <2>0, Zenon
      <3> QED
        BY <3>1, <3>2, Zenon
    <2>2. c.pc = "answered" /\ c.kind = call[q].kind /\ c.names = call[q].names /\ c.during = call[q].during
      BY <1>1, <1>4 DEF CallRecord
    <2> QED
      BY <1>3, <2>1, <2>2
  <1>6. Len(call[q].names) = 1 /\ call[q].names[1] \in Names
    BY <1>3, <1>4 DEF Served, CallRecord
  <1>7. Entries' = Entries \cup {<<call[q].names[1], q>>}
    <2>1. x.name = call[q].names[1] /\ x.by[1] = q
      BY <1>2
    <2> QED
      BY <1>3, <2>1 DEF Entries
  <1>8. Entries' \subseteq Names \X Calls
    BY <1>6, <1>7 DEF RegInv, RegTypeOK
  <1>9. call'[q] = c
    BY <1>3 DEF RegInv, RegTypeOK
  <1>10. Served(q, Entries)'
    BY <1>5, <1>6, <1>9 DEF Served
  <1>11. q \in Unfinished /\ ~Bulk(q)
    BY <1>3 DEF Unfinished, Bulk
  <1> QED
    BY <1>3, <1>5, <1>7, <1>8, <1>10, <1>11, ServedFurther

(* A bulk request looks up the names that are registered already.          *)
LEMMA SelectKeeps ==
    ASSUME RegInv, NEW q \in Calls, selectExisting(q)
    PROVE  RegInv'
  <1>1. PICK c : c = [call[q] EXCEPT !.pc = "inserting", !.left = 1,
                                     !.known = Registered \cap ToSet(call[q].names)]
    OBVIOUS
  <1>2. /\ call[q].pc = "sent" /\ call[q].kind = "bulk" /\ UNCHANGED <<scene, rows>>
        /\ call' = [call EXCEPT ![q] = c]
    BY <1>1 DEF selectExisting, unchangedGithub
  <1>3. call[q] \in CallRecord /\ Entries \subseteq Names \X Calls
    BY DEF RegInv, RegTypeOK
  <1>4. Entries' = Entries
    BY <1>2 DEF Entries
  <1>5. NamesIn(Entries) \subseteq Names
    BY <1>3 DEF NamesIn
  <1>6. /\ c \in CallRecord /\ c.pc = "inserting" /\ c.kind = "bulk" /\ c.names = call[q].names
        /\ c.left = 1 /\ c.known = NamesIn(Entries) \cap ToSet(c.names) /\ c.during = call[q].during
    BY <1>1, <1>2, <1>3, <1>5, RegisteredNames DEF CallRecord
  <1>7. call'[q] = c
    BY <1>2 DEF RegInv, RegTypeOK
  <1>8. Len(c.names) \in Nat /\ \A i \in 1..Len(c.names) : c.names[i] \in ToSet(c.names)
    BY <1>6 DEF CallRecord, ToSet
  <1>9. \A i \in 1..Len(c.names), e \in Entries : e[1] = c.names[i] => c.names[i] \in c.known
    BY <1>6, <1>8 DEF NamesIn
  <1>10. Served(q, Entries)'
    BY <1>4, <1>6, <1>7, <1>8, <1>9 DEF Served, NamesIn
  <1>11. q \in Unfinished
    BY <1>2 DEF Unfinished
  <1> QED
    BY <1>2, <1>3, <1>4, <1>6, <1>10, <1>11, ServedFurther

(* One name of a bulk request is skipped, inserted or fails.               *)
LEMMA RegisterKeeps ==
    ASSUME RegInv, NEW q \in Calls, registerOne(q)
    PROVE  RegInv'
  <1>1. PICK n : n = call[q].names[call[q].left]
    OBVIOUS
  <1>2. /\ call[q].pc = "inserting" /\ call[q].left <= Len(call[q].names) /\ UNCHANGED scene
        /\ call[q] \in CallRecord /\ Served(q, Entries) /\ Entries \subseteq Names \X Calls
    BY DEF registerOne, unchangedGithub, RegInv, RegTypeOK
  <1>3. call[q].left \in 1..Len(call[q].names) /\ n \in Names /\ Len(call[q].names) \in Nat
    BY <1>1, <1>2 DEF Served, CallRecord
  <1>4. q \in Unfinished
    BY <1>2 DEF Unfinished
  <1>5. ASSUME NEW c \in CallRecord, call' = [call EXCEPT ![q] = c], c.pc = "inserting",
               c.kind = call[q].kind, c.names = call[q].names, c.known = call[q].known,
               c.left = call[q].left + 1, c.during = call[q].during,
               c.errors = 0 => call[q].errors = 0 /\ n \in NamesIn(Entries'),
               Entries' = Entries \/ (Entries' = Entries \cup {<<n, q>>} /\ n \notin call[q].known)
        PROVE  RegInv'
    <2>1. call'[q] = c /\ \A p \in Calls : call'[p].during = call[p].during /\ call'[p].kind = call[p].kind
      BY <1>5 DEF RegInv, RegTypeOK
    <2>2. \A p, r \in Calls : (Knows(p, r)' <=> Knows(p, r)) /\ (Bulk(p)' <=> Bulk(p))
      BY <2>1 DEF Knows, Bulk
    <2>3. /\ Entries \subseteq Entries' /\ Entries' \subseteq Names \X Calls
          /\ \A e \in Entries' \ Entries : e[1] = n /\ e[2] = q /\ n \notin call[q].known
          /\ NamesIn(Entries) \subseteq NamesIn(Entries')
      BY <1>2, <1>3, <1>5 DEF NamesIn
    <2>4. ASSUME NEW i \in 1..Len(c.names), NEW e \in Entries',
                 c.left <= i, c.names[i] \notin c.known, e[1] = c.names[i], e[2] # q, Bulk(e[2])'
          PROVE  Knows(e[2], q)'
      <3>1. e \in Entries /\ e[2] \in Calls /\ Bulk(e[2]) /\ call[q].left <= i
        BY <1>3, <1>5, <2>2, <2>3, <2>4
      <3>2. Knows(e[2], q)
        BY <1>2, <1>5, <2>4, <3>1 DEF Served
      <3> QED
        BY <2>2, <3>1, <3>2
    <2>5. \A i \in 1..Len(c.names) : c.errors = 0 /\ i < c.left => c.names[i] \in NamesIn(Entries')
      <3> SUFFICES ASSUME NEW i \in 1..Len(c.names), c.errors = 0, i < c.left
                   PROVE  c.names[i] \in NamesIn(Entries')
        OBVIOUS
      <3>1. CASE i = call[q].left
        BY <1>1, <1>5, <3>1
      <3>2. CASE i # call[q].left
        BY <1>2, <1>3, <1>5, <2>3, <3>2 DEF Served
      <3> QED
        BY <3>1, <3>2
    <2>6. /\ c.left \in 1..Len(c.names) + 1 /\ c.known \subseteq NamesIn(Entries')
          /\ c.kind # "none" /\ (c.kind = "create" => Len(c.names) = 1)
      BY <1>2, <1>3, <1>5, <2>3 DEF Served
    <2>7. Served(q, Entries)'
      BY <1>5, <2>1, <2>4, <2>5, <2>6 DEF Served, NamesIn
    <2>8. ASSUME NEW e \in Entries' \ Entries, NEW f \in Entries,
                 e[1] = f[1], f[2] # q, Bulk(q), Bulk(f[2])
          PROVE  Knows(f[2], q)
      <3>1. f[1] = call[q].names[call[q].left] /\ f[1] \notin call[q].known
        BY <1>1, <2>3, <2>8
      <3> QED
        BY <1>2, <1>3, <2>8, <3>1 DEF Served
    <2> QED
      BY <1>2, <1>4, <1>5, <2>3, <2>7, <2>8, ServedFurther
  <1>6. CASE n \in call[q].known /\ UNCHANGED rows
             /\ call' = [call EXCEPT ![q].left = @ + 1, ![q].already = @ + 1]
    <2>1. PICK c : c = [call[q] EXCEPT !.left = @ + 1, !.already = @ + 1]
      OBVIOUS
    <2>2. call' = [call EXCEPT ![q] = c]
      BY <1>6, <2>1
    <2>3. /\ c \in CallRecord /\ c.pc = "inserting" /\ c.kind = call[q].kind /\ c.names = call[q].names
          /\ c.known = call[q].known /\ c.left = call[q].left + 1 /\ c.during = call[q].during
          /\ c.errors = call[q].errors
      <3>0. call[q].left + 1 \in Nat /\ call[q].already + 1 \in Nat
        BY <1>2 DEF CallRecord
      <3>1. c \in CallRecord
        BY <1>2, <2>1, <3>0, CallProgress, Zenon
      <3>2. /\ c.pc = call[q].pc /\ c.kind = call[q].kind /\ c.names = call[q].names
            /\ c.known = call[q].known /\ c.during = call[q].during
        BY <1>2, <2>1 DEF CallRecord
      <3>3. c.left = call[q].left + 1 /\ c.errors = call[q].errors
        BY <1>2, <2>1 DEF CallRecord
      <3> QED
        BY <1>2, <3>1, <3>2, <3>3
    <2>4. Entries' = Entries
      BY <1>6 DEF Entries
    <2>5. n \in NamesIn(Entries')
      BY <1>2, <1>6, <2>4 DEF Served
    <2> QED
      BY <1>5, <2>2, <2>3, <2>4, <2>5
  <1>7. CASE n \notin call[q].known
             /\ rows' = rows \cup {[name |-> n, by |-> <<q, call[q].left>>, linked |-> TRUE]}
             /\ call' = [call EXCEPT ![q].left = @ + 1, ![q].created = @ + 1]
    <2>1. PICK c : c = [call[q] EXCEPT !.left = @ + 1, !.created = @ + 1]
      OBVIOUS
    <2>2. call' = [call EXCEPT ![q] = c]
      BY <1>7, <2>1
    <2>3. /\ c \in CallRecord /\ c.pc = "inserting" /\ c.kind = call[q].kind /\ c.names = call[q].names
          /\ c.known = call[q].known /\ c.left = call[q].left + 1 /\ c.during = call[q].during
          /\ c.errors = call[q].errors
      <3>0. call[q].left + 1 \in Nat /\ call[q].created + 1 \in Nat
        BY <1>2 DEF CallRecord
      <3>1. c \in CallRecord
        BY <1>2, <2>1, <3>0, CallProgress, Zenon
      <3>2. /\ c.pc = call[q].pc /\ c.kind = call[q].kind /\ c.names = call[q].names
            /\ c.known = call[q].known /\ c.during = call[q].during
        BY <1>2, <2>1 DEF CallRecord
      <3>3. c.left = call[q].left + 1 /\ c.errors = call[q].errors
        BY <1>2, <2>1 DEF CallRecord
      <3> QED
        BY <1>2, <3>1, <3>2, <3>3
    <2>4. PICK x : x = [name |-> n, by |-> <<q, call[q].left>>, linked |-> TRUE]
      OBVIOUS
    <2>5. x.name = n /\ x.by[1] = q /\ rows' = rows \cup {x}
      BY <1>7, <2>4
    <2>6. Entries' = Entries \cup {<<n, q>>}
      BY <2>5 DEF Entries
    <2>7. n \in NamesIn(Entries')
      <3>1. <<n, q>> \in Entries' /\ <<n, q>>[1] = n
        BY <2>6
      <3> QED
        BY <3>1 DEF NamesIn
    <2> QED
      BY <1>5, <1>7, <2>2, <2>3, <2>6, <2>7
  <1>8. CASE n \notin call[q].known /\ UNCHANGED rows
             /\ call' = [call EXCEPT ![q].left = @ + 1, ![q].errors = @ + 1]
    <2>1. PICK c : c = [call[q] EXCEPT !.left = @ + 1, !.errors = @ + 1]
      OBVIOUS
    <2>2. call' = [call EXCEPT ![q] = c]
      BY <1>8, <2>1
    <2>3. /\ c \in CallRecord /\ c.pc = "inserting" /\ c.kind = call[q].kind /\ c.names = call[q].names
          /\ c.known = call[q].known /\ c.left = call[q].left + 1 /\ c.during = call[q].during
          /\ c.errors # 0
      <3>0. call[q].left + 1 \in Nat /\ call[q].errors + 1 \in Nat
        BY <1>2 DEF CallRecord
      <3>1. c \in CallRecord
        BY <1>2, <2>1, <3>0, CallProgress, Zenon
      <3>2. /\ c.pc = call[q].pc /\ c.kind = call[q].kind /\ c.names = call[q].names
            /\ c.known = call[q].known /\ c.during = call[q].during
        BY <1>2, <2>1 DEF CallRecord
      <3>3. c.left = call[q].left + 1 /\ c.errors # 0
        BY <1>2, <2>1 DEF CallRecord
      <3> QED
        BY <1>2, <3>1, <3>2, <3>3
    <2>4. Entries' = Entries
      BY <1>8 DEF Entries
    <2> QED
      BY <1>5, <2>2, <2>3, <2>4
  <1> QED
    BY <1>1, <1>6, <1>7, <1>8 DEF registerOne

(* A bulk request is answered when every name had its turn.                *)
LEMMA AnswerKeeps ==
    ASSUME RegInv, NEW q \in Calls, answerBulk(q)
    PROVE  RegInv'
  <1>1. PICK c : c = [call[q] EXCEPT !.pc = "answered", !.status = bulkStatus(call[q])]
    OBVIOUS
  <1>2. /\ call[q].pc = "inserting" /\ call[q].left > Len(call[q].names) /\ UNCHANGED <<scene, rows>>
        /\ call' = [call EXCEPT ![q] = c]
    BY <1>1 DEF answerBulk, unchangedGithub
  <1>3. call[q] \in CallRecord /\ Served(q, Entries) /\ Entries \subseteq Names \X Calls
    BY DEF RegInv, RegTypeOK
  <1>4. bulkStatus(call[q]) \in Nat
    BY DEF bulkStatus
  <1>5. /\ c \in CallRecord /\ c.pc = "answered" /\ c.kind = call[q].kind /\ c.names = call[q].names
        /\ c.errors = call[q].errors /\ c.during = call[q].during
    BY <1>1, <1>3, <1>4 DEF CallRecord
  <1>6. call'[q] = c /\ Entries' = Entries
    BY <1>2 DEF RegInv, RegTypeOK, Entries
  <1>7. Len(c.names) \in Nat /\ call[q].left \in Nat
    BY <1>3, <1>5 DEF CallRecord
  <1>8. Served(q, Entries)'
    <2>1. c.errors = 0 => \A i \in 1..Len(c.names) : c.names[i] \in NamesIn(Entries)
      BY <1>2, <1>3, <1>5, <1>7 DEF Served
    <2>2. c.kind # "none" /\ (c.kind = "create" => Len(c.names) = 1)
      BY <1>2, <1>3, <1>5 DEF Served
    <2> QED
      BY <1>5, <1>6, <2>1, <2>2 DEF Served, NamesIn
  <1>9. q \in Unfinished
    BY <1>2 DEF Unfinished
  <1> QED
    BY <1>2, <1>3, <1>5, <1>6, <1>8, <1>9, ServedFurther

(* Every row of the table has its three columns.                           *)
LEMMA RowStep == RowInv /\ RegInv /\ (Next \/ UNCHANGED vars) => RowInv'
  <1> SUFFICES ASSUME RowInv, RegInv, Next \/ UNCHANGED vars
               PROVE  RowInv'
    OBVIOUS
  <1>1. CASE UNCHANGED rows
    BY <1>1 DEF RowInv
  <1>2. ASSUME NEW h \in hooks, handleInstallationEvent(h)
        PROVE  RowInv'
    <2>1. rows' = Linked(inst')
      BY <1>2 DEF handleInstallationEvent
    <2>2. \A r \in rows : [r EXCEPT !.linked = FALSE] \in [name : Names, by : Calls \X Nat, linked : BOOLEAN]
      BY DEF RowInv
    <2> QED
      BY <2>1, <2>2 DEF Linked, RowInv
  <1>3. ASSUME NEW n \in Names, NEW q \in Calls, NEW i \in Nat, NEW l \in BOOLEAN,
               rows' = rows \cup {[name |-> n, by |-> <<q, i>>, linked |-> l]}
        PROVE  RowInv'
    BY <1>3 DEF RowInv
  <1>4. ASSUME NEW q \in Calls, createRepo(q) \/ registerOne(q)
        PROVE  RowInv'
    <2>0. call[q] \in CallRecord /\ Served(q, Entries)
      BY DEF RegInv, RegTypeOK
    <2>1. CASE createRepo(q)
      <3>1. call[q].names[1] \in Names
        BY <2>0, <2>1 DEF createRepo, Served, CallRecord
      <3> QED
        BY <1>3, <2>1, <3>1 DEF createRepo
    <2>2. CASE registerOne(q)
      <3>1. call[q].names[call[q].left] \in Names /\ call[q].left \in Nat
        BY <2>0, <2>2 DEF registerOne, Served, CallRecord
      <3> QED
        BY <1>1, <1>3, <2>2, <3>1 DEF registerOne
    <2> QED
      BY <1>4, <2>1, <2>2
  <1>5. ASSUME \/ Change \/ \E h \in hooks : Lose(h)
               \/ installRedirect \/ setupRefused \/ fetchInstallation \/ setupUpsert
               \/ ListingFails \/ checkInstallation \/ getInstallationToken \/ TokenExpires
               \/ listInstallationRepos \/ accessibleRepos
        PROVE  UNCHANGED rows
    BY <1>5 DEF Change, Lose, installRedirect, setupRefused, fetchInstallation, setupUpsert,
                ListingFails, checkInstallation, getInstallationToken, TokenExpires,
                listInstallationRepos, accessibleRepos, unchangedRepos
  <1>6. ASSUME \/ \E q \in Calls : \/ OtherClient(q) \/ selectExisting(q) \/ answerBulk(q)
                                   \/ handleSubmit(q) \/ handleSubmitNew(q)
               \/ \E at \in {"github", "new"} : Open(at)
               \/ \E n \in scene.names : toggleRepo(n) \/ setName(n)
               \/ toggleSelectAll \/ onSuccess \/ onError \/ Leave \/ AnswerDialog
        PROVE  UNCHANGED rows
    BY <1>6 DEF OtherClient, selectExisting, answerBulk, handleSubmit, handleSubmitNew, Open,
                toggleRepo, setName, toggleSelectAll, onSuccess, onError, Leave, AnswerDialog
  <1>7. CASE UNCHANGED vars
    BY <1>1, <1>7 DEF vars
  <1> QED
    BY <1>1, <1>2, <1>4, <1>5, <1>6, <1>7 DEF Next

(* Every step of the onboarding preserves RegInv, given what PageInv says  *)
(* of the names on the page.                                               *)
LEMMA RegStep == RowInv /\ RegInv /\ PageInv /\ (Next \/ UNCHANGED vars) => RegInv'
  <1> SUFFICES ASSUME RowInv, RegInv, PageInv, Next \/ UNCHANGED vars
               PROVE  RegInv'
    OBVIOUS
  <1>0. scene.names \subseteq Names /\ page \in PageRecord
    BY ScenesAssumption DEF RegInv, RegTypeOK, PageInv
  <1>u. ASSUME UNCHANGED <<scene, call, rows>>
        PROVE  RegInv'
    <2>1. Entries' = Entries
      BY <1>u DEF Entries
    <2> QED
      BY <1>u, <2>1, RegStands
  <1>1. ASSUME NEW h \in hooks, handleInstallationEvent(h)
        PROVE  RegInv'
    <2>1. UNCHANGED <<scene, call>> /\ rows' = Linked(inst')
      BY <1>1 DEF handleInstallationEvent
    <2>2. Entries' = Entries
      <3>1. CASE inst' # "none"
        BY <2>1, <3>1 DEF Linked, Entries
      <3>2. CASE inst' = "none"
        <4>1. rows' = {[r EXCEPT !.linked = FALSE] : r \in rows}
          BY <2>1, <3>2 DEF Linked
        <4>2. \A r \in rows : /\ [r EXCEPT !.linked = FALSE].name = r.name
                             /\ [r EXCEPT !.linked = FALSE].by = r.by
          BY DEF RowInv
        <4>3. ASSUME NEW e \in Entries
              PROVE  e \in Entries'
          <5>1. PICK r \in rows : e = <<r.name, r.by[1]>>
            BY <4>3 DEF Entries
          <5>2. PICK s \in rows' : s.name = r.name /\ s.by = r.by
            BY <4>1, <4>2
          <5> QED
            BY <5>1, <5>2 DEF Entries
        <4>4. ASSUME NEW e \in Entries'
              PROVE  e \in Entries
          <5>1. PICK s \in rows' : e = <<s.name, s.by[1]>>
            BY <4>4 DEF Entries
          <5>2. PICK r \in rows : s.name = r.name /\ s.by = r.by
            BY <4>1, <4>2
          <5> QED
            BY <5>1, <5>2 DEF Entries
        <4> QED
          BY <4>3, <4>4
      <3> QED
        BY <3>1, <3>2
    <2> QED
      BY <2>1, <2>2, RegStands
  <1>2. ASSUME NEW q \in Calls, OtherClient(q)
        PROVE  RegInv'
    <2>0. UNCHANGED <<scene, rows>>
      BY <1>2 DEF OtherClient, unchangedGithub
    <2>1. ASSUME NEW b \in Batches \cap Seq(scene.names), Sent(q, "api", "bulk", b)
          PROVE  RegInv'
      BY <2>0, <2>1, BatchesAssumption, SentKeeps
    <2>2. ASSUME NEW n \in scene.names, Sent(q, "api", "create", <<n>>)
          PROVE  RegInv'
      <3>1. <<n>> \in Seq(Names) /\ Len(<<n>>) = 1
        BY <1>0
      <3> QED
        BY <2>0, <2>2, <3>1, SentKeeps
    <2> QED
      BY <1>2, <2>1, <2>2 DEF OtherClient
  <1>3. ASSUME NEW q \in Calls, handleSubmit(q)
        PROVE  RegInv'
    <2>1. UNCHANGED <<scene, rows>> /\ Sent(q, "page", "bulk", SetToSeq(page.selected \ page.data))
      BY <1>3 DEF handleSubmit, unchangedGithub
    <2>2. page.selected \ page.data \in SUBSET Names
      BY <1>0 DEF PageRecord
    <2> QED
      BY <2>1, <2>2, SelectionSequence, SentKeeps
  <1>4. ASSUME NEW q \in Calls, handleSubmitNew(q)
        PROVE  RegInv'
    <2>1. UNCHANGED <<scene, rows>> /\ page.name # None /\ Sent(q, "page", "create", <<page.name>>)
      BY <1>4 DEF handleSubmitNew, unchangedGithub
    <2>2. <<page.name>> \in Seq(Names) /\ Len(<<page.name>>) = 1
      BY <1>0, <2>1 DEF PageRecord
    <2> QED
      BY <2>1, <2>2, SentKeeps
  <1>5. ASSUME Change \/ (\E h \in hooks : Lose(h))
        PROVE  RegInv'
    BY <1>5, <1>u DEF Change, Lose, unchangedRepos
  <1>6. ASSUME installRedirect \/ setupRefused \/ fetchInstallation \/ setupUpsert
        PROVE  RegInv'
    BY <1>6, <1>u DEF installRedirect, setupRefused, fetchInstallation, setupUpsert, unchangedRepos
  <1>7. ASSUME \/ ListingFails \/ checkInstallation \/ getInstallationToken \/ TokenExpires
               \/ listInstallationRepos \/ accessibleRepos
        PROVE  RegInv'
    BY <1>7, <1>u DEF ListingFails, checkInstallation, getInstallationToken, TokenExpires,
                      listInstallationRepos, accessibleRepos, unchangedGithub
  <1>8. ASSUME \/ \E at \in {"github", "new"} : Open(at)
               \/ \E n \in scene.names : toggleRepo(n) \/ setName(n)
               \/ toggleSelectAll \/ onSuccess \/ onError \/ Leave \/ AnswerDialog
        PROVE  RegInv'
    BY <1>8, <1>u DEF Open, toggleRepo, setName, toggleSelectAll, onSuccess, onError, Leave,
                      AnswerDialog, unchangedGithub
  <1>9. CASE UNCHANGED vars
    BY <1>9, <1>u DEF vars
  <1> QED
    BY <1>1, <1>2, <1>3, <1>4, <1>5, <1>6, <1>7, <1>8, <1>9, CreateKeeps, SelectKeeps,
       RegisterKeeps, AnswerKeeps DEF Next

(* A request that was sent does not become new again, and an answered one  *)
(* keeps its answer.                                                       *)
LEMMA CallsAdvance ==
    ASSUME RegInv, Next \/ UNCHANGED vars, NEW p \in Calls
    PROVE  /\ call[p].pc # "new" => call'[p].pc # "new"
           /\ call[p].pc = "answered" => call'[p] = call[p]
  <1>0. call \in [Calls -> CallRecord]
    BY DEF RegInv, RegTypeOK
  <1>1. ASSUME NEW q \in Calls, NEW by, NEW kd, NEW names, Sent(q, by, kd, names)
        PROVE  call[q].pc = "new" /\ \A r \in Calls \ {q} : call'[r] = call[r]
    BY <1>0, <1>1 DEF Sent
  <1>2. ASSUME NEW q \in Calls, OtherClient(q) \/ handleSubmit(q) \/ handleSubmitNew(q)
        PROVE  call[q].pc = "new" /\ \A r \in Calls \ {q} : call'[r] = call[r]
    BY <1>1, <1>2 DEF OtherClient, handleSubmit, handleSubmitNew
  <1>3. ASSUME NEW q \in Calls, createRepo(q) \/ selectExisting(q) \/ registerOne(q) \/ answerBulk(q)
        PROVE  /\ call[q].pc \in {"sent", "inserting"} /\ call'[q].pc # "new"
               /\ \A r \in Calls \ {q} : call'[r] = call[r]
    <2>0. call[q] \in CallRecord
      BY <1>0
    <2>1. CASE createRepo(q)
      BY <1>0, <2>0, <2>1 DEF createRepo, CallRecord
    <2>2. CASE selectExisting(q)
      BY <1>0, <2>0, <2>2 DEF selectExisting, CallRecord
    <2>3. CASE registerOne(q)
      BY <1>0, <2>0, <2>3 DEF registerOne, CallRecord
    <2>4. CASE answerBulk(q)
      BY <1>0, <2>0, <2>4 DEF answerBulk, CallRecord
    <2> QED
      BY <1>3, <2>1, <2>2, <2>3, <2>4
  <1>4. ASSUME UNCHANGED call
        PROVE  call'[p] = call[p]
    BY <1>4
  <1>5. ASSUME \/ Change \/ \E h \in hooks : Lose(h) \/ handleInstallationEvent(h)
               \/ installRedirect \/ setupRefused \/ fetchInstallation \/ setupUpsert
               \/ ListingFails \/ checkInstallation \/ getInstallationToken \/ TokenExpires
               \/ listInstallationRepos \/ accessibleRepos
        PROVE  UNCHANGED call
    BY <1>5 DEF Change, Lose, handleInstallationEvent, installRedirect, setupRefused,
                fetchInstallation, setupUpsert, ListingFails, checkInstallation,
                getInstallationToken, TokenExpires, listInstallationRepos, accessibleRepos,
                unchangedRepos
  <1>6. ASSUME \/ \E at \in {"github", "new"} : Open(at)
               \/ \E n \in scene.names : toggleRepo(n) \/ setName(n)
               \/ toggleSelectAll \/ onSuccess \/ onError \/ Leave \/ AnswerDialog
        PROVE  UNCHANGED call
    BY <1>6 DEF Open, toggleRepo, setName, toggleSelectAll, onSuccess, onError, Leave, AnswerDialog
  <1>7. CASE UNCHANGED vars
    BY <1>4, <1>7 DEF vars
  <1> QED
    BY <1>2, <1>3, <1>4, <1>5, <1>6, <1>7 DEF Next

(* The empty page is a page.                                               *)
LEMMA NoPageType == /\ NoPage \in PageRecord /\ NoPage.sent = None /\ NoPage.submitted = None
                    /\ [NoPage EXCEPT !.at = "github"] \in PageRecord
                    /\ [NoPage EXCEPT !.at = "new"] \in PageRecord
                    /\ \A at : [NoPage EXCEPT !.at = at].sent = None
                    /\ \A at : [NoPage EXCEPT !.at = at].submitted = None
  BY DEF NoPage, PageRecord

(* The registration page remembers only requests it sent, and says it is   *)
(* done only after an answer to a bulk request that reports no error.      *)
LEMMA PageStep == RegInv /\ PageInv /\ (Next \/ UNCHANGED vars) => PageInv'
  <1> SUFFICES ASSUME RegInv, PageInv, Next \/ UNCHANGED vars
               PROVE  PageInv'
    OBVIOUS
  <1>0. /\ page \in PageRecord /\ scene.names \subseteq Names /\ call \in [Calls -> CallRecord]
        /\ Registered \subseteq Names
    <2>1. Entries \subseteq Names \X Calls
      BY DEF RegInv, RegTypeOK
    <2> QED
      BY <2>1, RegisteredNames, ScenesAssumption DEF RegInv, RegTypeOK, PageInv, NamesIn
  <1>s. page.sent \in Calls \cup {None} /\ page.submitted \in Calls \cup {None}
    BY <1>0 DEF PageRecord
  \* A page that remembers the same requests, or forgets one.
  <1>a. ASSUME page' \in PageRecord, page'.sent \in {None, page.sent},
               page'.submitted \in {None, page.submitted}
        PROVE  PageInv'
    <2>1. page'.sent # None => call'[page'.sent].pc # "new"
      BY <1>a, <1>s, CallsAdvance DEF PageInv
    <2>2. page'.submitted # None => call'[page'.submitted] = call[page.submitted]
      BY <1>a, <1>s, CallsAdvance DEF PageInv
    <2> QED
      BY <1>a, <2>1, <2>2 DEF PageInv
  <1>u. ASSUME UNCHANGED page
        PROVE  PageInv'
    BY <1>0, <1>a, <1>u
  <1>n. ASSUME page' = NoPage
        PROVE  PageInv'
    BY <1>a, <1>n, NoPageType
  <1>o. ASSUME NEW at \in {"github", "new"}, page' = [NoPage EXCEPT !.at = at]
        PROVE  PageInv'
    BY <1>a, <1>o, NoPageType
  <1>1. ASSUME setupUpsert
        PROVE  PageInv'
    BY <1>1, <1>o, <1>u DEF setupUpsert
  <1>2. ASSUME accessibleRepos
        PROVE  PageInv'
    <2>1. CASE page' = page
      BY <1>u, <2>1
    <2>2. CASE page' = [page EXCEPT !.data = Registered]
      <3>1. page' \in PageRecord
        BY <1>0, <2>2 DEF PageRecord
      <3>2. page'.sent = page.sent /\ page'.submitted = page.submitted
        BY <1>0, <2>2 DEF PageRecord
      <3> QED
        BY <1>a, <3>1, <3>2
    <2> QED
      BY <1>2, <2>1, <2>2 DEF accessibleRepos
  <1>3. ASSUME NEW n \in scene.names, toggleRepo(n) \/ setName(n)
        PROVE  PageInv'
    <2>1. CASE toggleRepo(n)
      <3>1. PICK S : S = IF n \in page.selected THEN page.selected \ {n} ELSE page.selected \cup {n}
        OBVIOUS
      <3>2. page' = [page EXCEPT !.selected = S]
        BY <2>1, <3>1 DEF toggleRepo
      <3>3. S \in SUBSET Names
        BY <1>0, <3>1 DEF PageRecord
      <3>4. page' \in PageRecord
        BY <1>0, <3>2, <3>3 DEF PageRecord
      <3>5. page'.sent = page.sent /\ page'.submitted = page.submitted
        BY <1>0, <3>2 DEF PageRecord
      <3> QED
        BY <1>a, <3>4, <3>5
    <2>2. CASE setName(n)
      <3>1. page' = [page EXCEPT !.name = n] /\ n \in Names
        BY <1>0, <2>2 DEF setName
      <3>2. page' \in PageRecord
        BY <1>0, <3>1 DEF PageRecord
      <3>3. page'.sent = page.sent /\ page'.submitted = page.submitted
        BY <1>0, <3>1 DEF PageRecord
      <3> QED
        BY <1>a, <3>2, <3>3
    <2> QED
      BY <1>3, <2>1, <2>2
  <1>4. ASSUME toggleSelectAll
        PROVE  PageInv'
    <2>1. PICK S : S = IF scene.names \ page.data \subseteq page.selected
                       THEN page.selected \cap page.data
                       ELSE page.selected \cup (scene.names \ page.data)
      OBVIOUS
    <2>2. page' = [page EXCEPT !.selected = S]
      BY <1>4, <2>1 DEF toggleSelectAll
    <2>3. S \in SUBSET Names
      BY <1>0, <2>1 DEF PageRecord
    <2>4. page' \in PageRecord
      BY <1>0, <2>2, <2>3 DEF PageRecord
    <2>5. page'.sent = page.sent /\ page'.submitted = page.submitted
      BY <1>0, <2>2 DEF PageRecord
    <2> QED
      BY <1>a, <2>4, <2>5
  <1>5. ASSUME NEW q \in Calls, handleSubmit(q) \/ handleSubmitNew(q)
        PROVE  PageInv'
    <2>1. page' = [page EXCEPT !.sent = q] /\ \E kd, names : Sent(q, "page", kd, names)
      BY <1>5 DEF handleSubmit, handleSubmitNew
    <2>2. page' \in PageRecord
      BY <1>0, <2>1 DEF PageRecord
    <2>3. page'.sent = q /\ page'.submitted = page.submitted
      BY <1>0, <2>1 DEF PageRecord
    <2>4. call'[q].pc = "sent"
      BY <1>0, <2>1 DEF Sent, NoCall
    <2>5. page'.submitted # None => call'[page'.submitted] = call[page.submitted]
      BY <1>s, <2>3, CallsAdvance DEF PageInv
    <2> QED
      BY <2>2, <2>3, <2>4, <2>5 DEF PageInv
  <1>f. ASSUME page' = [page EXCEPT !.sent = None]
        PROVE  PageInv'
    <2>1. page' \in PageRecord
      BY <1>0, <1>f DEF PageRecord
    <2>2. page'.sent = None /\ page'.submitted = page.submitted
      BY <1>0, <1>f DEF PageRecord
    <2> QED
      BY <1>a, <2>1, <2>2
  <1>6. ASSUME onSuccess
        PROVE  PageInv'
    <2>1. page.sent \in Calls /\ call[page.sent].pc = "answered" /\ UNCHANGED call
      BY <1>6, <1>s DEF onSuccess
    <2>2. \/ page' = [page EXCEPT !.sent = None]
          \/ page' = NoPage
          \/ /\ page' = [page EXCEPT !.sent = None, !.submitted = page.sent,
                                     !.asked = (page.selected # {})]
             /\ allRegistered(call[page.sent]) /\ call[page.sent].kind # "create"
      BY <1>6 DEF onSuccess
    <2>3. CASE /\ page' = [page EXCEPT !.sent = None, !.submitted = page.sent,
                                       !.asked = (page.selected # {})]
               /\ allRegistered(call[page.sent]) /\ call[page.sent].kind # "create"
      <3>1. call[page.sent] \in CallRecord /\ Served(page.sent, Entries)
        BY <1>0, <2>1 DEF RegInv
      <3>2. call[page.sent].kind = "bulk" /\ call[page.sent].errors = 0
        BY <2>1, <2>3, <3>1 DEF Served, CallRecord, allRegistered
      <3>3. PICK b \in BOOLEAN : b = (page.selected # {})
        OBVIOUS
      <3>4. page' = [page EXCEPT !.sent = None, !.submitted = page.sent, !.asked = b]
        BY <2>3, <3>3
      <3>5. page' \in PageRecord
        BY <1>0, <2>1, <3>3, <3>4 DEF PageRecord
      <3>6. page'.sent = None /\ page'.submitted = page.sent
        BY <1>0, <3>4 DEF PageRecord
      <3> QED
        BY <2>1, <3>2, <3>5, <3>6 DEF PageInv
    <2> QED
      BY <1>f, <1>n, <2>2, <2>3
  <1>7. ASSUME Leave \/ AnswerDialog
        PROVE  PageInv'
    <2>1. ASSUME NEW b \in BOOLEAN, page' = [page EXCEPT !.asked = b]
          PROVE  PageInv'
      <3>1. page' \in PageRecord
        BY <1>0, <2>1 DEF PageRecord
      <3>2. page'.sent = page.sent /\ page'.submitted = page.submitted
        BY <1>0, <2>1 DEF PageRecord
      <3> QED
        BY <1>a, <3>1, <3>2
    <2> QED
      BY <1>7, <1>n, <2>1 DEF Leave, AnswerDialog
  <1>8. ASSUME onError \/ \E at \in {"github", "new"} : Open(at)
        PROVE  PageInv'
    BY <1>8, <1>f, <1>o DEF onError, Open
  <1>9. ASSUME \/ Change \/ \E h \in hooks : Lose(h) \/ handleInstallationEvent(h)
               \/ installRedirect \/ setupRefused \/ fetchInstallation
               \/ ListingFails \/ checkInstallation \/ getInstallationToken \/ TokenExpires
               \/ listInstallationRepos
               \/ \E q \in Calls : \/ OtherClient(q) \/ createRepo(q) \/ selectExisting(q)
                                   \/ registerOne(q) \/ answerBulk(q)
        PROVE  UNCHANGED page
    BY <1>9 DEF Change, Lose, handleInstallationEvent, installRedirect, setupRefused,
                fetchInstallation, ListingFails, checkInstallation, getInstallationToken,
                TokenExpires, listInstallationRepos, OtherClient, createRepo, selectExisting,
                registerOne, answerBulk, unchangedRepos
  <1>10. CASE UNCHANGED vars
    BY <1>10, <1>u DEF vars
  <1> QED
    BY <1>1, <1>2, <1>3, <1>4, <1>5, <1>6, <1>7, <1>8, <1>9, <1>10, <1>u DEF Next

OnboardingInv == HookInv /\ RowInv /\ RegInv /\ PageInv

(* The invariant holds before the App is installed.                        *)
LEMMA OnboardingInit == Init => OnboardingInv
  <1> SUFFICES ASSUME Init
               PROVE  OnboardingInv
    OBVIOUS
  <1>1. HookInv
    BY DEF Init, HookInv, HookTypeOK, Sequenced, InStep, RowOf
  <1>2. NoCall \in CallRecord /\ NoCall.pc = "new" /\ NoCall.kind = "none"
    BY DEF NoCall, CallRecord
  <1>3. rows = {} /\ Entries = {} /\ scene \in Scenes /\ \A q \in Calls : call[q] = NoCall
    BY DEF Init, Entries
  <1>4. call \in [Calls -> CallRecord]
    BY <1>2 DEF Init
  <1>5. Unfinished = {} /\ \A q \in Calls : Served(q, Entries)
    BY <1>2, <1>3 DEF Unfinished, Served
  <1>6. RegInv
    BY <1>3, <1>4, <1>5 DEF RegInv, RegTypeOK
  <1>7. PageInv
    BY NoPageType DEF Init, PageInv
  <1> QED
    BY <1>1, <1>3, <1>6, <1>7 DEF OnboardingInv, RowInv

(* What the invariant says of the table, the installation and the page.    *)
LEMMA OnboardingImplies ==
    OnboardingInv => DuplicatesExplained /\ InstallationAgrees /\ SubmittedRegistered
  <1> SUFFICES ASSUME HookInv, RegInv, PageInv
               PROVE  DuplicatesExplained /\ InstallationAgrees /\ SubmittedRegistered
    BY DEF OnboardingInv
  <1>1. DuplicatesExplained
    <2> SUFFICES ASSUME NEW r \in rows, NEW s \in rows, r.name = s.name, r.by[1] # s.by[1],
                        Bulk(r.by[1]), Bulk(s.by[1])
                 PROVE  Knows(r.by[1], s.by[1])
      BY DEF DuplicatesExplained, Bulk, Knows
    <2>1. <<r.name, r.by[1]>> \in Entries /\ <<s.name, s.by[1]>> \in Entries
      BY DEF Entries
    <2> QED
      BY <2>1 DEF RegInv
  <1>2. InstallationAgrees
    BY DEF HookInv, InStep, RowOf, InstallationAgrees
  <1>3. SubmittedRegistered
    <2> SUFFICES ASSUME page.submitted # None
                 PROVE  ToSet(call[page.submitted].names) \subseteq Registered
      BY DEF SubmittedRegistered
    <2>1. page.submitted \in Calls
      BY DEF PageInv, PageRecord
    <2>2. call[page.submitted] \in CallRecord /\ Served(page.submitted, Entries)
      BY <2>1 DEF RegInv, RegTypeOK
    <2>3. \A i \in 1..Len(call[page.submitted].names) : call[page.submitted].names[i] \in Registered
      BY <2>2, RegisteredNames DEF Served, PageInv
    <2>4. call[page.submitted].names \in Seq(Names)
      BY <2>2 DEF CallRecord
    <2> QED
      BY <2>3, <2>4 DEF ToSet
  <1> QED
    BY <1>1, <1>2, <1>3

(* A name is registered twice only through POST /repos, one request that   *)
(* names it twice or two bulk requests that overlapped; the row of the     *)
(* installation agrees with GitHub once every event has arrived in order;  *)
(* and the page says it is done only when every name it sent is registered *)
(* (api/github-repos.ts, handlers/webhook.ts, github-setup.ts), for every  *)
(* set of repositories, requests and scenes.                               *)
THEOREM OnboardingHolds == HostSpec => []OnboardingExplained
  <1> DEFINE I == part = "onboarding" => OnboardingInv
  <1>1. HostInit => I
    BY OnboardingInit DEF HostInit
  <1>2. I /\ [HostNext]_hostVars => I'
    BY PartSteps, HookStep, RowStep, RegStep, PageStep DEF OnboardingInv
  <1>3. I => OnboardingExplained
    BY OnboardingImplies DEF OnboardingExplained
  <1> QED
    BY <1>1, <1>2, <1>3, PTL DEF HostSpec, hostVars
=============================================================================
