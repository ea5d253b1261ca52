--------------------------- MODULE FindStringProofs ---------------------------
(***************************************************************************)
(* Proofs about FindString.tla, for every set of files and texts, chunk    *)
(* size, limit of threads and place where the program may crash.           *)
(*                                                                         *)
(* Three facts are carried from step to step.  PoolInv: a slot of the pool *)
(* that is in use lies between the threads joined and the threads spawned, *)
(* and while there is one process_large_file has not returned.  MainInv:   *)
(* the main thread is inside format_output only when its loop is not       *)
(* running.  MutexInv: a mutex is held by exactly the thread that stands   *)
(* between its lock() and its unlock().                                    *)
(*                                                                         *)
(* They do not say yet what is printed.  SInv adds that a place that was   *)
(* found is in the hands of one thread (which has read its chunk, or found *)
(* the matches in it) and lies behind the stream's position (Accounted);   *)
(* how that position and left_so_far agree with the chunks read and the    *)
(* threads that wait for one (StreamInv); what a thread holds at each of   *)
(* its stages (LocalInv); and that each line printed shows the characters  *)
(* of its file (LinesInv).                                                 *)
(***************************************************************************)
EXTENDS FindString, Chains, SequenceTheorems, TLAPS

Stages == {"idle", "lock", "read", "advance", "unlock", "format", "print", "exit"}
Reading == {"read", "advance", "unlock"}

Shapes ==
  /\ cur \in Files \cup {NoFile} /\ todo \subseteq Files
  /\ pc \in {"next", "print", "loop", "joinbatch", "joinall", "done", "crashed"}
  /\ spawned \in 0 .. ThreadLimit + 1 /\ joined \in 0 .. spawned
  /\ stage \in [Threads -> Stages] /\ job \in [Threads -> Files \cup {NoFile}]
  /\ open \in BOOLEAN

PoolInv ==
  /\ \A t \in Slots : stage[t] # "idle" =>
       joined < t /\ t <= spawned /\ open /\ job[t] = cur
  /\ pc \in {"next", "print", "done"} => spawned = 0
  /\ pc = "loop" => open /\ joined = 0 /\ spawned <= ThreadLimit
  /\ pc \in {"joinbatch", "joinall"} => open

MainInv ==
  /\ stage[Main] \in {"idle", "format", "print", "exit"}
  /\ stage[Main] # "idle" => pc \in {"print", "crashed"}

MutexInv ==
  /\ \A t \in Threads : stage[t] \in Reading <=> fread = t
  /\ \A t \in Threads : stage[t] = "print" <=> format = t

IInv == Shapes /\ PoolInv /\ MainInv /\ MutexInv

LEMMA Identities ==
  /\ Threads = 0 .. ThreadLimit + 1 /\ Slots = 1 .. ThreadLimit + 1
  /\ Main \in Threads /\ Nobody \notin Threads /\ ThreadLimit \in Nat
  BY SearchAssumption DEF Threads, Slots, Main, Nobody

-----------------------------------------------------------------------------
(* The initial state, and the steps of the main thread.                      *)

LEMMA InitInv == Init => IInv
<1> SUFFICES ASSUME Init PROVE IInv
  OBVIOUS
<1> USE Identities
<1>1. Shapes
  <2>1. todo \subseteq Files
    BY DEF Init
  <2>2. stage \in [Threads -> Stages] /\ job \in [Threads -> Files \cup {NoFile}]
    BY DEF Init, Stages
  <2>3. spawned \in 0 .. ThreadLimit + 1 /\ joined \in 0 .. spawned
    BY DEF Init
  <2> QED BY <2>1, <2>2, <2>3 DEF Init, Shapes
<1>2. PoolInv /\ MainInv
  BY DEF Init, PoolInv, MainInv, Main
<1>3. MutexInv
  BY DEF Init, MutexInv, Reading
<1> QED BY <1>1, <1>2, <1>3 DEF IInv

\* format_output is entered by a main thread that has joined its pool.
LEMMA OutputInv ==
  ASSUME IInv, NEW f \in Files \cup {NoFile}, NEW vec, Output(f, vec),
         stage[Main] = "idle", \A t \in Slots : stage[t] = "idle",
         spawned' = 0, joined' = 0, cur' \in Files \cup {NoFile}, todo' \subseteq Files,
         open' \in BOOLEAN, UNCHANGED mutexes
  PROVE  IInv'
<1> USE Identities
<1>1. stage \in [Threads -> Stages] /\ job \in [Threads -> Files \cup {NoFile}]
  BY DEF IInv, Shapes
<1>2. /\ stage' \in [Threads -> Stages] /\ job' \in [Threads -> Files \cup {NoFile}]
      /\ \A t \in Threads \ {Main} : stage'[t] = stage[t]
      /\ \/ pc' = "next" /\ stage'[Main] = "idle"
         \/ pc' = "print" /\ stage'[Main] = "format"
  BY <1>1 DEF Output, Stages
<1>3. Shapes'
  BY <1>2 DEF Shapes
<1>4. Slots = Threads \ {Main}
  BY DEF Main
<1>5. PoolInv' /\ MainInv'
  BY <1>2, <1>4 DEF PoolInv, MainInv
<1>6. MutexInv'
  BY <1>2, <1>4 DEF IInv, MutexInv, Reading, mutexes
<1> QED BY <1>3, <1>5, <1>6 DEF IInv

\* Between two files nobody uses a stream.
LEMMA Quiet ==
  ASSUME IInv, pc \in {"next", "print"}
  PROVE  /\ \A t \in Slots : stage[t] = "idle"
         /\ spawned = 0 /\ joined = 0
         /\ pc = "next" => stage[Main] = "idle"
<1>1. spawned = 0 /\ joined = 0
  BY DEF IInv, PoolInv, Shapes
<1>2. \A t \in Slots : stage[t] = "idle"
  BY <1>1, Identities DEF IInv, PoolInv
<1>3. pc = "next" => stage[Main] = "idle"
  BY DEF IInv, MainInv
<1> QED BY <1>1, <1>2, <1>3

LEMMA VisitStep ==
  ASSUME IInv, NEW f \in Files, SmallFile(f) \/ LargeFile(f)
  PROVE  IInv'
<1>1. /\ pc = "next" /\ todo' \subseteq Files /\ cur' = f
      /\ UNCHANGED <<spawned, joined, mutexes>>
  BY DEF SmallFile, LargeFile, Visit, IInv, Shapes
<1>2. /\ \A t \in Slots : stage[t] = "idle"
      /\ spawned = 0 /\ joined = 0 /\ stage[Main] = "idle"
  BY <1>1, Quiet
<1>3. CASE \E vec : Output(f, vec) /\ UNCHANGED open
  BY <1>1, <1>2, <1>3, OutputInv DEF IInv, Shapes
<1>4. CASE pc' = "loop" /\ open' = TRUE /\ UNCHANGED <<stage, job>>
  <2>1. Shapes'
    BY <1>1, <1>4 DEF IInv, Shapes
  <2>2. PoolInv' /\ MainInv'
    BY <1>1, <1>2, <1>4, Identities DEF PoolInv, MainInv
  <2>3. MutexInv'
    BY <1>1, <1>4 DEF IInv, MutexInv, mutexes
  <2> QED BY <2>1, <2>2, <2>3 DEF IInv
<1>5. SmallFile(f) => \E vec : Output(f, vec) /\ UNCHANGED open
  BY DEF SmallFile, stream
<1>6. LargeFile(f) => \/ \E vec : Output(f, vec) /\ UNCHANGED open
                      \/ pc' = "loop" /\ open' = TRUE /\ UNCHANGED <<stage, job>>
  BY DEF LargeFile, stream
<1> QED BY <1>3, <1>4, <1>5, <1>6

LEMMA OutputDoneStep == IInv /\ OutputDone => IInv'
<1> SUFFICES ASSUME IInv, OutputDone PROVE IInv'
  OBVIOUS
<1> USE Identities
<1>1. stage \in [Threads -> Stages]
  BY DEF IInv, Shapes
<1>2. /\ stage' \in [Threads -> Stages] /\ stage'[Main] = "idle" /\ pc' = "next"
      /\ stage[Main] = "exit" /\ \A t \in Threads \ {Main} : stage'[t] = stage[t]
      /\ UNCHANGED <<todo, cur, spawned, joined, open, job, fread, format>>
  BY <1>1 DEF OutputDone, Stages, stream, locals, mutexes
<1>3. Shapes'
  BY <1>2 DEF IInv, Shapes
<1>4. (\A t \in Slots : stage[t] = "idle") /\ spawned = 0
  BY Quiet DEF OutputDone
<1>5. PoolInv' /\ MainInv'
  BY <1>2, <1>4 DEF PoolInv, MainInv, Main
<1>6. MutexInv'
  BY <1>2 DEF IInv, MutexInv, Reading
<1> QED BY <1>3, <1>5, <1>6 DEF IInv

LEMMA CrashStep == IInv /\ Crash => IInv'
<1> SUFFICES ASSUME IInv, Crash PROVE IInv'
  OBVIOUS
<1>1. /\ pc' = "crashed"
      /\ UNCHANGED <<todo, cur, spawned, joined, open, stage, job, fread, format>>
  BY DEF Crash, stream, locals, mutexes
<1>2. Shapes'
  BY <1>1 DEF IInv, Shapes
<1>3. PoolInv' /\ MainInv' /\ MutexInv'
  BY <1>1 DEF IInv, PoolInv, MainInv, MutexInv
<1> QED BY <1>2, <1>3 DEF IInv

LEMMA SpawnStep == IInv /\ Spawn => IInv'
<1> SUFFICES ASSUME IInv, Spawn PROVE IInv'
  OBVIOUS
<1> USE Identities
<1> DEFINE new == spawned + 1
<1>1. /\ stage \in [Threads -> Stages] /\ job \in [Threads -> Files \cup {NoFile}]
      /\ cur \in Files \cup {NoFile} /\ spawned \in Nat
  BY DEF IInv, Shapes
<1>2. joined = 0 /\ open /\ spawned <= ThreadLimit
  BY DEF Spawn, IInv, PoolInv
<1>3. new \in Slots /\ new \in Threads /\ new # Main
  BY <1>1, <1>2 DEF Main
<1>4. /\ stage' = [stage EXCEPT ![new] = "lock"] /\ job' = [job EXCEPT ![new] = cur]
      /\ spawned' = new /\ pc' = IF new > ThreadLimit THEN "joinbatch" ELSE "loop"
      /\ UNCHANGED <<todo, cur, joined, open, fread, format>>
  BY DEF Spawn, PoolFull, stream, mutexes
<1>5. /\ stage' \in [Threads -> Stages] /\ job' \in [Threads -> Files \cup {NoFile}]
      /\ stage'[new] = "lock" /\ job'[new] = cur
      /\ \A t \in Threads \ {new} : stage'[t] = stage[t] /\ job'[t] = job[t]
  BY <1>1, <1>3, <1>4 DEF Stages
<1>6. \A t \in Slots : stage[t] = "idle" \/ (t # new /\ t <= spawned /\ job[t] = cur)
  BY <1>1, <1>2 DEF IInv, PoolInv
<1> HIDE DEF new
<1>7. Shapes'
  <2>1. new \in 0 .. ThreadLimit + 1 /\ joined \in 0 .. new
    BY <1>1, <1>2 DEF new
  <2> QED BY <1>4, <1>5, <2>1 DEF IInv, Shapes
<1>8. PoolInv'
  <2>1. ASSUME NEW t \in Slots, stage'[t] # "idle"
        PROVE  joined' < t /\ t <= spawned' /\ open' /\ job'[t] = cur'
    BY <1>1, <1>2, <1>4, <1>5, <1>6, <2>1 DEF new
  <2>2. pc' = "loop" => open' /\ joined' = 0 /\ spawned' <= ThreadLimit
    BY <1>1, <1>2, <1>4 DEF new
  <2> QED BY <1>2, <1>4, <2>1, <2>2 DEF PoolInv
<1>9. MainInv'
  BY <1>3, <1>5, Identities DEF IInv, MainInv, Spawn
<1>10. stage[new] # "print" /\ stage[new] \notin Reading
  BY <1>3, <1>6 DEF Reading
<1>11. MutexInv'
  BY <1>3, <1>4, <1>5, <1>10 DEF IInv, MutexInv, Reading
<1> QED BY <1>7, <1>8, <1>9, <1>11 DEF IInv

LEMMA LoopEndsStep == IInv /\ LoopEnds => IInv'
<1> SUFFICES ASSUME IInv, LoopEnds PROVE IInv'
  OBVIOUS
<1>1. /\ pc = "loop" /\ pc' = "joinall"
      /\ UNCHANGED <<todo, cur, spawned, joined, open, stage, job, fread, format>>
  BY DEF LoopEnds, stream, locals, mutexes
<1>2. Shapes'
  BY <1>1 DEF IInv, Shapes
<1>3. PoolInv' /\ MainInv' /\ MutexInv'
  BY <1>1 DEF IInv, PoolInv, MainInv, MutexInv
<1> QED BY <1>2, <1>3 DEF IInv

LEMMA JoinStep == IInv /\ Join => IInv'
<1> SUFFICES ASSUME IInv, Join PROVE IInv'
  OBVIOUS
<1> USE Identities
<1> DEFINE t0 == joined + 1
<1>1. /\ stage \in [Threads -> Stages] /\ spawned \in 0 .. ThreadLimit + 1
      /\ joined \in 0 .. spawned /\ joined < spawned /\ pc \in {"joinbatch", "joinall"}
  BY DEF IInv, Shapes, Join
<1>2. t0 \in Slots /\ t0 \in Threads /\ t0 # Main
  BY <1>1 DEF Main
<1>3. /\ stage[t0] = "exit" /\ joined' = t0 /\ stage' = [stage EXCEPT ![t0] = "idle"]
      /\ UNCHANGED <<todo, cur, pc, spawned, open, job, fread, format>>
  BY DEF Join, stream, locals, mutexes
<1> HIDE DEF t0
<1>4. /\ stage' \in [Threads -> Stages] /\ stage'[t0] = "idle"
      /\ \A t \in Threads \ {t0} : stage'[t] = stage[t]
  BY <1>1, <1>2, <1>3 DEF Stages
<1>5. Shapes'
  <2>1. t0 \in 0 .. spawned
    BY <1>1 DEF t0
  <2> QED BY <1>3, <1>4, <2>1 DEF IInv, Shapes
<1>6. PoolInv'
  <2>1. ASSUME NEW t \in Slots, stage'[t] # "idle"
        PROVE  joined' < t /\ t <= spawned' /\ open' /\ job'[t] = cur'
    <3>1. t # t0 /\ stage[t] # "idle"
      BY <1>4, <2>1
    <3>2. joined < t /\ t <= spawned /\ open /\ job[t] = cur
      BY <3>1 DEF IInv, PoolInv
    <3> QED BY <1>1, <1>3, <3>1, <3>2 DEF t0
  <2> QED BY <1>1, <1>3, <2>1 DEF IInv, PoolInv
<1>7. MainInv'
  BY <1>2, <1>3, <1>4 DEF IInv, MainInv
<1>8. MutexInv'
  BY <1>2, <1>3, <1>4 DEF IInv, MutexInv, Reading
<1> QED BY <1>5, <1>6, <1>7, <1>8 DEF IInv

LEMMA PoolJoinedStep == IInv /\ PoolJoined => IInv'
<1> SUFFICES ASSUME IInv, PoolJoined PROVE IInv'
  OBVIOUS
<1> USE Identities
<1>1. /\ pc \in {"joinbatch", "joinall"} /\ joined = spawned /\ joined' = 0 /\ spawned' = 0
      /\ UNCHANGED <<todo, cur, fread, format>>
  BY DEF PoolJoined, mutexes
<1>2. (\A t \in Slots : stage[t] = "idle") /\ stage[Main] = "idle" /\ open
  <2>1. spawned \in 0 .. ThreadLimit + 1
    BY DEF IInv, Shapes
  <2> QED BY <1>1, <2>1 DEF IInv, PoolInv, MainInv
<1>3. CASE pc = "joinbatch"
  <2>1. pc' = "loop" /\ UNCHANGED <<open, stage, job>>
    BY <1>3 DEF PoolJoined
  <2>2. Shapes'
    BY <1>1, <2>1 DEF IInv, Shapes
  <2>3. PoolInv' /\ MainInv' /\ MutexInv'
    BY <1>1, <1>2, <2>1 DEF IInv, PoolInv, MainInv, MutexInv
  <2> QED BY <2>2, <2>3 DEF IInv
<1>4. CASE pc = "joinall"
  <2>1. open' = FALSE /\ Output(cur, <<>>)
    BY <1>4 DEF PoolJoined
  <2>2. cur' \in Files \cup {NoFile} /\ todo' \subseteq Files
    BY <1>1 DEF IInv, Shapes
  <2>3. cur \in Files \cup {NoFile}
    BY DEF IInv, Shapes
  <2> QED BY <1>1, <1>2, <2>1, <2>2, <2>3, OutputInv DEF mutexes
<1> QED BY <1>1, <1>3, <1>4

LEMMA FinishStep == IInv /\ Finish => IInv'
<1> SUFFICES ASSUME IInv, Finish PROVE IInv'
  OBVIOUS
<1>1. /\ pc = "next" /\ pc' = "done"
      /\ UNCHANGED <<todo, cur, spawned, joined, open, stage, job, fread, format>>
  BY DEF Finish, stream, locals, mutexes
<1>2. Shapes'
  BY <1>1 DEF IInv, Shapes
<1>3. PoolInv' /\ MainInv' /\ MutexInv'
  BY <1>1 DEF IInv, PoolInv, MainInv, MutexInv
<1> QED BY <1>2, <1>3 DEF IInv

-----------------------------------------------------------------------------
(* The steps of the threads.  Each moves one thread on, and each that takes   *)
(* or gives back a mutex is that of the thread that stands there.            *)

\* What a step of thread t may do to the pool: nothing but to move t on.
LEMMA ThreadKeeps ==
  ASSUME IInv, NEW t \in Threads, stage[t] # "idle",
         NEW s \in Stages \ {"idle"}, stage' = [stage EXCEPT ![t] = s],
         t = Main => s \in {"format", "print", "exit"},
         UNCHANGED <<todo, cur, pc, spawned, joined, open, job>>
  PROVE  /\ Shapes' /\ PoolInv' /\ MainInv'
         /\ stage'[t] = s /\ \A u \in Threads \ {t} : stage'[u] = stage[u]
<1> USE Identities
<1>1. /\ stage \in [Threads -> Stages]
      /\ stage' \in [Threads -> Stages] /\ stage'[t] = s
      /\ \A u \in Threads \ {t} : stage'[u] = stage[u]
  BY DEF IInv, Shapes
<1>2. Shapes'
  BY <1>1 DEF IInv, Shapes
<1>3. PoolInv'
  BY <1>1 DEF IInv, PoolInv
<1>4. MainInv'
  BY <1>1 DEF IInv, MainInv
<1> QED BY <1>1, <1>2, <1>3, <1>4

LEMMA ThreadInv ==
  ASSUME IInv, NEW t \in Threads, ThreadStep(t)
  PROVE  IInv'
<1> USE Identities
<1>0. /\ \A u \in Threads : stage[u] \in Reading <=> fread = u
      /\ \A u \in Threads : stage[u] = "print" <=> format = u
  BY DEF IInv, MutexInv
<1>1. t = Main => stage[t] \in {"idle", "format", "print", "exit"}
  BY DEF IInv, MainInv
<1>2. CASE LockRead(t)
  <2>1. /\ stage[t] = "lock" /\ fread = Nobody /\ fread' = t /\ UNCHANGED format
        /\ stage' = [stage EXCEPT ![t] = "read"]
        /\ UNCHANGED <<todo, cur, pc, spawned, joined, open, job>>
    BY <1>2 DEF LockRead, main, stream, locals
  <2>2. /\ Shapes' /\ PoolInv' /\ MainInv'
        /\ stage'[t] = "read" /\ \A u \in Threads \ {t} : stage'[u] = stage[u]
    BY <1>1, <2>1, ThreadKeeps DEF Stages
  <2>3. MutexInv'
    BY <1>0, <2>1, <2>2 DEF MutexInv, Reading
  <2> QED BY <2>2, <2>3 DEF IInv
<1>3. CASE ReadSome(t) \/ Advance(t)
  <2>1. PICK s \in {"advance", "unlock"} :
          /\ stage[t] \in Reading /\ UNCHANGED <<fread, format>>
          /\ stage' = [stage EXCEPT ![t] = s]
          /\ UNCHANGED <<todo, cur, pc, spawned, joined, open, job>>
    BY <1>3 DEF ReadSome, Advance, Reading, main, stream, locals, mutexes
  <2>2. /\ Shapes' /\ PoolInv' /\ MainInv'
        /\ stage'[t] = s /\ \A u \in Threads \ {t} : stage'[u] = stage[u]
    BY <1>1, <2>1, ThreadKeeps DEF Stages, Reading
  <2>3. MutexInv'
    BY <1>0, <2>1, <2>2 DEF MutexInv, Reading
  <2> QED BY <2>2, <2>3 DEF IInv
<1>4. CASE UnlockRead(t)
  <2>1. /\ stage[t] = "unlock" /\ fread' = Nobody /\ UNCHANGED format
        /\ stage' = [stage EXCEPT ![t] = "format"]
        /\ UNCHANGED <<todo, cur, pc, spawned, joined, open, job>>
    BY <1>4 DEF UnlockRead, main, stream
  <2>2. /\ Shapes' /\ PoolInv' /\ MainInv'
        /\ stage'[t] = "format" /\ \A u \in Threads \ {t} : stage'[u] = stage[u]
    BY <1>1, <2>1, ThreadKeeps DEF Stages
  <2>3. MutexInv'
    BY <1>0, <2>1, <2>2 DEF MutexInv, Reading
  <2> QED BY <2>2, <2>3 DEF IInv
<1>5. CASE LockFormat(t)
  <2>1. /\ stage[t] = "format" /\ format = Nobody /\ format' = t /\ UNCHANGED fread
        /\ stage' = [stage EXCEPT ![t] = "print"]
        /\ UNCHANGED <<todo, cur, pc, spawned, joined, open, job>>
    BY <1>5 DEF LockFormat, main, stream, locals
  <2>2. /\ Shapes' /\ PoolInv' /\ MainInv'
        /\ stage'[t] = "print" /\ \A u \in Threads \ {t} : stage'[u] = stage[u]
    BY <1>1, <2>1, ThreadKeeps DEF Stages
  <2>3. MutexInv'
    BY <1>0, <2>1, <2>2 DEF MutexInv, Reading
  <2> QED BY <2>2, <2>3 DEF IInv
<1>6. CASE PrintLine(t)
  <2>1. UNCHANGED <<todo, cur, pc, spawned, joined, open, stage, job, fread, format>>
    BY <1>6 DEF PrintLine, main, stream, mutexes
  <2>2. Shapes'
    BY <2>1 DEF IInv, Shapes
  <2>3. PoolInv' /\ MainInv' /\ MutexInv'
    BY <2>1 DEF IInv, PoolInv, MainInv, MutexInv
  <2> QED BY <2>2, <2>3 DEF IInv
<1>7. CASE UnlockFormat(t)
  <2>1. /\ stage[t] = "print" /\ format' = Nobody /\ UNCHANGED fread
        /\ stage' = [stage EXCEPT ![t] = "exit"]
        /\ UNCHANGED <<todo, cur, pc, spawned, joined, open, job>>
    BY <1>7 DEF UnlockFormat, main, stream
  <2>2. /\ Shapes' /\ PoolInv' /\ MainInv'
        /\ stage'[t] = "exit" /\ \A u \in Threads \ {t} : stage'[u] = stage[u]
    BY <1>1, <2>1, ThreadKeeps DEF Stages
  <2>3. MutexInv'
    BY <1>0, <2>1, <2>2 DEF MutexInv, Reading
  <2> QED BY <2>2, <2>3 DEF IInv
<1> QED BY <1>2, <1>3, <1>4, <1>5, <1>6, <1>7 DEF ThreadStep

-----------------------------------------------------------------------------
(* The theorems.                                                             *)

\* Every step, of the main thread, of a reading thread or of the one that prints,
\* keeps the pool, the main thread and the mutexes in order.
THEOREM Inductive == IInv /\ [Next]_vars => IInv'
<1> SUFFICES ASSUME IInv, [Next]_vars PROVE IInv'
  OBVIOUS
<1>1. CASE UNCHANGED vars
  <2>1. UNCHANGED <<todo, cur, pc, spawned, joined, open, stage, job, fread, format>>
    BY <1>1 DEF vars, main, stream, locals, mutexes
  <2>2. Shapes'
    BY <2>1 DEF IInv, Shapes
  <2>3. PoolInv' /\ MainInv' /\ MutexInv'
    BY <2>1 DEF IInv, PoolInv, MainInv, MutexInv
  <2> QED BY <2>2, <2>3 DEF IInv
<1>2. CASE MainStep
  BY <1>2, VisitStep, OutputDoneStep, CrashStep, SpawnStep, LoopEndsStep, JoinStep,
     PoolJoinedStep, FinishStep DEF MainStep, WalkThrows, SpawnFails
<1>3. CASE \E t \in Threads : ThreadStep(t)
  BY <1>3, ThreadInv
<1> QED BY <1>1, <1>2, <1>3 DEF Next

\* The invariant holds in every state the search can reach.
THEOREM Safety == Spec => []IInv
BY InitInv, Inductive, PTL DEF Spec

\* No thread uses the stream of process_large_file after that function has returned,
\* nor that of another file, whatever the number of chunks and threads.
THEOREM StreamOutlives == Spec => []StreamOutlivesThreads
<1>1. IInv => StreamOutlivesThreads
  BY DEF IInv, PoolInv, StreamOutlivesThreads
<1> QED BY <1>1, Safety, PTL

-----------------------------------------------------------------------------
(* Who writes a line.                                                        *)

Listed == \E S : printed \in Seq(S)

\* A line is written by a thread that holds format_mutex, at the end of the output.
LEMMA PrintedBy ==
  ASSUME [Next]_vars, printed' # printed
  PROVE  \E t \in Threads : \E e : stage[t] = "print" /\ e.by = t /\ printed' = Append(printed, e)
<1>1. ~UNCHANGED vars /\ Next
  BY DEF vars
<1>2. ~MainStep
  BY DEF MainStep, SmallFile, LargeFile, OutputDone, WalkThrows, SpawnFails, Crash, Spawn,
         LoopEnds, Join, PoolJoined, Finish
<1>3. PICK t \in Threads : ThreadStep(t)
  BY <1>1, <1>2 DEF Next
<1>4. PrintLine(t)
  BY <1>3 DEF ThreadStep, LockRead, ReadSome, Advance, UnlockRead, LockFormat, UnlockFormat
<1> DEFINE m == Head(out[t])
           e == [file |-> job[t], offset |-> m.offset, prefix |-> FormatString(m.prefix),
                 suffix |-> FormatString(m.suffix), place |-> from[t] + m.offset, by |-> t]
<1>5. stage[t] = "print" /\ printed' = Append(printed, e)
  BY <1>4 DEF PrintLine
<1>6. e.by = t
  OBVIOUS
<1> HIDE DEF e
<1> QED BY <1>5, <1>6

LEMMA ListedStep == Listed /\ [Next]_vars => Listed'
<1> SUFFICES ASSUME Listed, [Next]_vars, printed' # printed PROVE Listed'
  BY DEF Listed
<1>1. PICK S : printed \in Seq(S)
  BY DEF Listed
<1>2. PICK e : printed' = Append(printed, e)
  BY PrintedBy
<1>3. printed \in Seq(S \cup {e})
  BY <1>1
<1>4. printed' \in Seq(S \cup {e})
  BY <1>2, <1>3
<1> QED BY <1>4 DEF Listed

LEMMA ListedAlways == Spec => []Listed
<1>1. Init => Listed
  BY DEF Init, Listed
<1> QED BY <1>1, ListedStep, PTL DEF Spec

\* The lines of one call of format_output stay together, whatever the number of threads
\* and of matches: only one thread is between its lock and its unlock of format_mutex.
THEOREM TogetherAlways == Spec => LinesTogether
<1>1. ASSUME IInv, Listed, [Next]_vars, NEW t \in Threads,
             out[t] # <<>>, stage[t] = "print", printed' # printed
      PROVE  printed'[Len(printed')].by = t
  <2>1. PICK u \in Threads : \E e : stage[u] = "print" /\ e.by = u /\ printed' = Append(printed, e)
    BY <1>1, PrintedBy
  <2>2. u = t
    BY <1>1, <2>1 DEF IInv, MutexInv
  <2>3. PICK e : e.by = u /\ printed' = Append(printed, e)
    BY <2>1
  <2>4. PICK S : printed \in Seq(S)
    BY <1>1 DEF Listed
  <2>5. Append(printed, e)[Len(Append(printed, e))] = e
    <3>1. printed \in Seq(S \cup {e}) /\ e \in S \cup {e}
      BY <2>4
    <3>2. Len(Append(printed, e)) = Len(printed) + 1
      BY <3>1
    <3> QED BY <3>1, <3>2
  <2> QED BY <2>2, <2>3, <2>5
<1>2. IInv /\ Listed /\ [Next]_vars =>
        [\A t \in Threads : out[t] # <<>> /\ stage[t] = "print" /\ printed' # printed
                           => printed'[Len(printed')].by = t]_vars
  BY <1>1
<1> QED BY <1>2, Safety, ListedAlways, PTL DEF Spec, LinesTogether

-----------------------------------------------------------------------------
(* Sets of numbers in order, and remainders.                                 *)

Ascends(s) == \A i, j \in DOMAIN s : i < j => s[i] < s[j]

\* Every set of numbers below a bound can be listed in ascending order.
LEMMA CanBeListed ==
  ASSUME NEW n \in Nat, NEW S \in SUBSET (0 .. n - 1)
  PROVE  IsFiniteSet(S) /\ \E s \in [1 .. Cardinality(S) -> S] : Ascends(s)
<1> DEFINE Good == {m \in Nat : \A T \in SUBSET (0 .. m - 1) :
                      IsFiniteSet(T) /\ \E s \in [1 .. Cardinality(T) -> T] : Ascends(s)}
<1>1. 0 \in Good
  <2> SUFFICES ASSUME NEW T \in SUBSET (0 .. 0 - 1)
               PROVE  IsFiniteSet(T) /\ \E s \in [1 .. Cardinality(T) -> T] : Ascends(s)
    OBVIOUS
  <2>1. T = {}
    BY SMT
  <2>2. IsFiniteSet(T) /\ Cardinality(T) = 0
    BY <2>1, FS_EmptySet
  <2> DEFINE s == [i \in 1 .. 0 |-> i]
  <2>3. s \in [1 .. 0 -> T] /\ DOMAIN s = {}
    BY SMT
  <2>4. Ascends(s)
    BY <2>3 DEF Ascends
  <2> HIDE DEF s
  <2> QED BY <2>2, <2>3, <2>4
<1>2. ASSUME NEW m \in Nat, m \in Good
      PROVE  m + 1 \in Good
  <2> SUFFICES ASSUME NEW T \in SUBSET (0 .. (m + 1) - 1)
               PROVE  IsFiniteSet(T) /\ \E s \in [1 .. Cardinality(T) -> T] : Ascends(s)
    OBVIOUS
  <2> DEFINE R == T \ {m}
  <2>1. R \in SUBSET (0 .. m - 1)
    BY SMT
  <2>2. IsFiniteSet(R) /\ \E s \in [1 .. Cardinality(R) -> R] : Ascends(s)
    BY <1>2, <2>1
  <2>3. CASE m \notin T
    <3>1. R = T
      BY <2>3
    <3> QED BY <2>2, <3>1
  <2>4. CASE m \in T
    <3> DEFINE k == Cardinality(R)
    <3>1. PICK s \in [1 .. k -> R] : Ascends(s)
      BY <2>2
    <3>2. T = R \cup {m} /\ m \notin R
      BY <2>4
    <3>3. k \in Nat /\ IsFiniteSet(T) /\ Cardinality(T) = k + 1
      <4> HIDE DEF R
      <4>1. k \in Nat
        BY <2>2, FS_CardinalityType
      <4>2. IsFiniteSet(R \cup {m}) /\ Cardinality(R \cup {m}) = k + 1
        BY <2>2, <3>2, FS_AddElement
      <4> QED BY <3>2, <4>1, <4>2
    <3> DEFINE g == [i \in 1 .. k + 1 |-> IF i = k + 1 THEN m ELSE s[i]]
    <3> HIDE DEF k
    <3>4. \A i \in 1 .. k : s[i] \in T /\ s[i] \in 0 .. m - 1
      BY <2>1, <3>1
    <3>5. g \in [1 .. k + 1 -> T]
      BY <2>4, <3>3, <3>4, SMT
    <3>6. ASSUME NEW i \in 1 .. k + 1, NEW j \in 1 .. k + 1, i < j
          PROVE  g[i] < g[j]
      <4>1. i \in 1 .. k /\ i # k + 1 /\ s[i] < m
        BY <3>3, <3>4, <3>6, SMT
      <4>2. CASE j = k + 1
        BY <4>1, <4>2
      <4>3. CASE j # k + 1
        <5>1. j \in 1 .. k
          BY <3>3, <4>3, SMT
        <5> QED BY <3>1, <3>6, <4>1, <4>3, <5>1 DEF Ascends
      <4> QED BY <4>2, <4>3
    <3>7. Ascends(g)
      BY <3>5, <3>6 DEF Ascends
    <3> HIDE DEF g
    <3> QED BY <3>3, <3>5, <3>7
  <2> QED BY <2>3, <2>4
<1> HIDE DEF Good
<1>3. Nat \subseteq Good
  BY <1>1, <1>2, NumberInduction, Zenon
<1> QED BY <1>3 DEF Good

\* InOrder lists each member of the set once.
LEMMA InOrderLists ==
  ASSUME NEW n \in Nat, NEW S \in SUBSET (0 .. n - 1)
  PROVE  \E k \in Nat : /\ InOrder(S) \in [1 .. k -> S]
                        /\ \A x \in S : \E h \in 1 .. k : InOrder(S)[h] = x
                        /\ \A i, j \in 1 .. k : InOrder(S)[i] = InOrder(S)[j] => i = j
<1> DEFINE k == Cardinality(S)
           s == InOrder(S)
<1>0. \A x \in S : x \in Nat
  BY SMT
<1>1. IsFiniteSet(S) /\ \E r \in [1 .. k -> S] : Ascends(r)
  BY CanBeListed
<1>2. k \in Nat
  BY <1>1, FS_CardinalityType
<1>3. s \in [1 .. k -> S] /\ Ascends(s)
  BY <1>1 DEF InOrder, Ascends
<1> HIDE DEF s
<1>4. \A i, j \in 1 .. k : s[i] = s[j] => i = j
  <2> SUFFICES ASSUME NEW i \in 1 .. k, NEW j \in 1 .. k, s[i] = s[j], i # j PROVE FALSE
    OBVIOUS
  <2>1. s[i] \in Nat /\ s[j] \in Nat
    <3>1. s[i] \in S /\ s[j] \in S
      BY <1>3
    <3> QED BY <1>0, <3>1
  <2>2. i < j \/ j < i
    BY <1>2, SMT
  <2>3. s[i] < s[j] \/ s[j] < s[i]
    BY <1>3, <2>2 DEF Ascends
  <2> QED BY <2>1, <2>3, SMT
<1>5. s \in Injection(1 .. k, S)
  BY <1>3, <1>4 DEF Injection, IsInjective
<1>6. IsFiniteSet(1 .. k) /\ Cardinality(1 .. k) = k
  BY <1>2, FS_Interval
<1>7. s \in Surjection(1 .. k, S)
  BY <1>1, <1>5, <1>6, FS_Injection
<1>8. \A x \in S : \E i \in 1 .. k : s[i] = x
  BY <1>7 DEF Surjection
<1> HIDE DEF k
<1> QED BY <1>2, <1>3, <1>4, <1>8 DEF s

\* What is left of a number after whole chunks.
LEMMA InChunk ==
  ASSUME NEW c \in Nat \ {0}, NEW k \in Nat, NEW o \in 0 .. c - 1
  PROVE  (k * c + o) % c = o
<1> DEFINE x == k * c + o
           y == k * c
<1>1. y \in Nat /\ x = y + o /\ x \in Nat
  BY SMT
<1>2. x = c * (x \div c) + (x % c) /\ x % c \in 0 .. c - 1 /\ x \div c \in Int
  BY <1>1, SMT
<1>3. x % c = o
  BY <1>1, <1>2, Z3
<1> QED BY <1>3

-----------------------------------------------------------------------------
(* Texts and buffers.                                                        *)

\* The characters of texts and of what is printed.  The provers do not know of a literal
\* that it is a string.
Char == STRING \cup {Nul, "(null)", "\\t", "\\n", "\\r", "\\b", "<space>"}

\* A buffer holds those and zeros.
Buffer == Seq(Char)

LEMMA FunctionIsSeq ==
  ASSUME NEW S, NEW n \in Nat, NEW s \in [1 .. n -> S]
  PROVE  s \in Seq(S) /\ Len(s) = n
<1>1. s \in Seq(S)
  BY SeqDef
<1>2. DOMAIN s = 1 .. Len(s) /\ Len(s) \in Nat
  BY <1>1, LenProperties
<1>3. 1 .. Len(s) = 1 .. n
  BY <1>2
<1> QED BY <1>1, <1>2, <1>3, SMT

LEMMA Chars == STRING \subseteq Char /\ Nul \in Char /\ NullText \in Seq(Char)
<1>1. Nul \in Char /\ "(null)" \in Char
  BY DEF Char, Nul
<1> QED BY <1>1 DEF Char, NullText

LEMMA TargetFacts ==
  /\ Len(Target) \in Nat \ {0} /\ Context \in Nat /\ Chunk \in Nat \ {0}
  /\ \A i \in 1 .. Len(Target) : Target[i] # Nul
<1>1. Target \in Seq(STRING) /\ Target # <<>>
  BY SearchAssumption
<1>2. DOMAIN Target = 1 .. Len(Target) /\ Len(Target) \in Nat \ {0}
  BY <1>1
<1> QED BY <1>2, SearchAssumption

LEMMA TextFacts ==
  ASSUME NEW f \in Files
  PROVE  Text(f) \in Buffer /\ Len(Text(f)) \in 0 .. SizeMod - 1 /\ SizeMod \in Nat \ {0}
<1>1. Content[f] \in Seq(STRING) /\ Len(Content[f]) < SizeMod
  BY SearchAssumption
<1>2. Len(Content[f]) \in Nat /\ Content[f] \in Seq(Char)
  BY <1>1, Chars, SeqMonotonic, LenProperties
<1> QED BY <1>1, <1>2, SearchAssumption DEF Text, Buffer

LEMMA ImmediateFacts ==
  ASSUME NEW f \in Files, NEW p \in 0 .. Len(Text(f)), NEW l \in Nat, NEW n \in Immediate(f, p, l)
  PROVE  /\ n \in 0 .. l /\ p + n <= Len(Text(f))
         /\ f \notin Late => n = IF p + l <= Len(Text(f)) THEN l ELSE Len(Text(f)) - p
<1>1. Len(Text(f)) \in Nat
  BY TextFacts
<1> QED BY <1>1 DEF Immediate

LEMMA FilledFacts ==
  ASSUME NEW f \in Files, NEW p \in Nat, NEW n \in Nat, p + n <= Len(Text(f)), NEW len \in Nat
  PROVE  /\ Filled(f, p, n, len) \in Buffer /\ Len(Filled(f, p, n, len)) = len
         /\ \A i \in 1 .. len : Filled(f, p, n, len)[i] = IF i <= n THEN Text(f)[p + i] ELSE Nul
<1> DEFINE s == [i \in 1 .. len |-> IF i <= n THEN Text(f)[p + i] ELSE Nul]
<1>1. Text(f) \in Seq(Char) /\ Len(Text(f)) \in Nat
  BY TextFacts DEF Buffer
<1>2. ASSUME NEW i \in 1 .. len, i <= n
      PROVE  Text(f)[p + i] \in Char
  <2>1. p + i \in 1 .. Len(Text(f))
    BY <1>1, <1>2
  <2> QED BY <1>1, <2>1, ElementOfSeq
<1>3. s \in [1 .. len -> Char]
  BY <1>2, Chars
<1>4. s \in Seq(Char) /\ Len(s) = len
  BY <1>3, FunctionIsSeq
<1> QED BY <1>4 DEF Filled, Buffer

LEMMA TerminatedFacts ==
  ASSUME NEW s \in Buffer
  PROVE  /\ Terminated(s) \in Buffer /\ Len(Terminated(s)) = Len(s) /\ Len(s) \in Nat
         /\ \A i \in 1 .. Len(s) - 1 : Terminated(s)[i] = s[i]
         /\ Len(s) > 0 => Terminated(s)[Len(s)] = Nul
<1>1. s \in Seq(Char) /\ Len(s) \in Nat
  BY DEF Buffer
<1>2. CASE s = <<>>
  BY <1>1, <1>2 DEF Terminated, Buffer
<1>3. CASE s # <<>>
  <2>1. Len(s) > 0 /\ Len(s) \in 1 .. Len(s)
    BY <1>1, <1>3, EmptySeq
  <2>2. Terminated(s) = [s EXCEPT ![Len(s)] = Nul]
    BY <1>3 DEF Terminated
  <2>3. /\ Terminated(s) \in Seq(Char) /\ Len(Terminated(s)) = Len(s)
        /\ \A j \in 1 .. Len(s) : Terminated(s)[j] = IF j = Len(s) THEN Nul ELSE s[j]
    BY <1>1, <2>1, <2>2, Chars, ExceptSeq
  <2>4. \A i \in 1 .. Len(s) - 1 : i \in 1 .. Len(s) /\ i # Len(s)
    BY <1>1
  <2> QED BY <1>1, <2>1, <2>3, <2>4 DEF Buffer
<1> QED BY <1>2, <1>3

\* The string has no character 0: a match ends before the byte that is overwritten.
LEMMA HitsOf ==
  ASSUME NEW s \in Buffer, NEW o
  PROVE  o \in Hits(s) <=> /\ o \in Nat /\ o + Len(Target) < Len(s)
                           /\ \A i \in 1 .. Len(Target) : s[o + i] = Target[i]
<1> DEFINE m == Len(Target)
           n == Len(s)
           w == Terminated(s)
<1>1. /\ m \in Nat \ {0} /\ n \in Nat /\ Len(w) = n
      /\ \A i \in 1 .. m : Target[i] # Nul
      /\ \A i \in 1 .. n - 1 : w[i] = s[i]
      /\ n > 0 => w[n] = Nul
  BY TargetFacts, TerminatedFacts
<1>2. o \in Hits(s) <=> o \in 0 .. n /\ o + m <= n /\ \A i \in 1 .. m : w[o + i] = Target[i]
  BY <1>1 DEF Hits, Places, Occurs
<1> HIDE DEF m, n, w
<1>3. ASSUME o \in 0 .. n, o + m <= n, \A i \in 1 .. m : w[o + i] = Target[i]
      PROVE  o + m < n
  <2>1. m \in 1 .. m
    BY <1>1
  <2>2. w[o + m] # Nul
    BY <1>1, <1>3, <2>1
  <2>3. n > 0
    BY <1>1, <1>3
  <2> QED BY <1>1, <1>3, <2>2, <2>3
<1>4. ASSUME o \in Nat, o + m < n
      PROVE  \A i \in 1 .. m : w[o + i] = s[o + i]
  <2>1. \A i \in 1 .. m : o + i \in 1 .. n - 1
    BY <1>1, <1>4
  <2> QED BY <1>1, <2>1
<1>5. o \in Hits(s) => o \in Nat /\ o + m < n /\ \A i \in 1 .. m : s[o + i] = Target[i]
  BY <1>1, <1>2, <1>3, <1>4
<1>6. ASSUME o \in Nat, o + m < n, \A i \in 1 .. m : s[o + i] = Target[i]
      PROVE  o \in Hits(s)
  <2>1. o \in 0 .. n /\ o + m <= n
    BY <1>1, <1>6
  <2> QED BY <1>2, <1>4, <1>6, <2>1
<1> QED BY <1>5, <1>6 DEF m, n

-----------------------------------------------------------------------------
(* What is found of a file.                                                  *)

LEMMA PlacesOfText ==
  ASSUME NEW f \in Files, NEW r
  PROVE  r \in Places(Text(f)) <=>
           /\ r \in Nat /\ r + Len(Target) <= Len(Text(f))
           /\ \A i \in 1 .. Len(Target) : Text(f)[r + i] = Target[i]
<1>1. Len(Target) \in Nat /\ Len(Text(f)) \in Nat
  BY TargetFacts, TextFacts
<1> QED BY <1>1 DEF Places, Occurs

LEMMA BufferLenFacts ==
  ASSUME NEW f \in Files
  PROVE  /\ BufferLen(f) \in Nat
         /\ Len(Text(f)) >= SizeLimit => BufferLen(f) = Chunk
         /\ Len(Text(f)) < SizeLimit => BufferLen(f) = Len(Text(f))
<1>1. Len(Text(f)) \in Nat /\ Chunk \in Nat /\ SizeLimit \in Nat
  BY TextFacts, TargetFacts, SearchAssumption
<1> QED BY <1>1 DEF BufferLen

\* A buffer into which n characters of file f were read at position p.
BufferOf(f, p, n, s) == /\ p \in 0 .. Len(Text(f)) /\ n \in Immediate(f, p, BufferLen(f))
                        /\ s = Filled(f, p, n, BufferLen(f))

LEMMA BufferFacts ==
  ASSUME NEW f \in Files, NEW p, NEW n, NEW s, BufferOf(f, p, n, s)
  PROVE  /\ p \in Nat /\ n \in 0 .. BufferLen(f) /\ p + n <= Len(Text(f))
         /\ s \in Buffer /\ Len(s) = BufferLen(f)
         /\ \A i \in 1 .. BufferLen(f) : s[i] = IF i <= n THEN Text(f)[p + i] ELSE Nul
<1>1. /\ p \in 0 .. Len(Text(f)) /\ n \in Immediate(f, p, BufferLen(f))
      /\ s = Filled(f, p, n, BufferLen(f))
  BY DEF BufferOf
<1>2. BufferLen(f) \in Nat /\ Len(Text(f)) \in Nat
  BY BufferLenFacts, TextFacts
<1>3. p \in Nat /\ n \in 0 .. BufferLen(f) /\ n \in Nat /\ p + n <= Len(Text(f))
  BY <1>1, <1>2, ImmediateFacts
<1> DEFINE l == BufferLen(f)
<1> HIDE DEF l
<1>4. /\ Filled(f, p, n, l) \in Buffer /\ Len(Filled(f, p, n, l)) = l
      /\ \A i \in 1 .. l : Filled(f, p, n, l)[i] = IF i <= n THEN Text(f)[p + i] ELSE Nul
  BY <1>2, <1>3, FilledFacts DEF l
<1> QED BY <1>1, <1>3, <1>4 DEF l

\* A small file is searched as one text.
LEMMA SmallBuffer ==
  ASSUME NEW f \in Files, Len(Text(f)) < SizeLimit
  PROVE  BufferOf(f, 0, Len(Text(f)), Text(f))
<1> DEFINE n == Len(Text(f))
           s == Filled(f, 0, n, n)
<1>1. BufferLen(f) = n /\ n \in Nat /\ Text(f) \in Seq(Char)
  BY BufferLenFacts, TextFacts DEF Buffer
<1>2. 0 \in 0 .. n /\ n \in Immediate(f, 0, n)
  BY <1>1 DEF Immediate
<1>3. s \in Seq(Char) /\ Len(s) = n /\ \A i \in 1 .. n : s[i] = IF i <= n THEN Text(f)[0 + i] ELSE Nul
  <2> DEFINE z == 0
  <2>1. z \in Nat /\ z + n <= Len(Text(f))
    BY <1>1
  <2> HIDE DEF n, z
  <2>2. /\ Filled(f, z, n, n) \in Buffer /\ Len(Filled(f, z, n, n)) = n
        /\ \A i \in 1 .. n : Filled(f, z, n, n)[i] = IF i <= n THEN Text(f)[z + i] ELSE Nul
    BY <1>1, <2>1, FilledFacts
  <2> QED BY <2>2 DEF Buffer, z
<1>4. \A i \in 1 .. n : s[i] = Text(f)[i]
  BY <1>1, <1>3
<1> HIDE DEF s
<1>5. s = Text(f)
  BY <1>1, <1>3, <1>4, SeqEqual
<1> QED BY <1>1, <1>2, <1>5 DEF BufferOf, s

\* The string has no character 0, so what is found lies in the characters that were read,
\* before the last byte of the buffer.
LEMMA PieceHits ==
  ASSUME NEW f \in Files, NEW p, NEW n, NEW s, BufferOf(f, p, n, s), NEW o
  PROVE  o \in Hits(s) <=> /\ o \in Nat /\ p + o \in Places(Text(f))
                           /\ o + Len(Target) <= n /\ o + Len(Target) < BufferLen(f)
<1> DEFINE m == Len(Target)
           l == BufferLen(f)
           x == Text(f)
<1>1. /\ p \in Nat /\ n \in 0 .. l /\ p + n <= Len(x) /\ s \in Buffer /\ Len(s) = l
      /\ \A i \in 1 .. l : s[i] = IF i <= n THEN x[p + i] ELSE Nul
  BY BufferFacts
<1>2. m \in Nat \ {0} /\ l \in Nat /\ Len(x) \in Nat /\ \A i \in 1 .. m : Target[i] # Nul
  BY TargetFacts, TextFacts, BufferLenFacts
<1>3. o \in Hits(s) <=> o \in Nat /\ o + m < l /\ \A i \in 1 .. m : s[o + i] = Target[i]
  BY <1>1, HitsOf
<1>4. p + o \in Places(x) <=> /\ p + o \in Nat /\ (p + o) + m <= Len(x)
                              /\ \A i \in 1 .. m : x[(p + o) + i] = Target[i]
  BY PlacesOfText
<1> HIDE DEF m, l, x
<1>5. ASSUME o \in Nat, o + m < l
      PROVE  /\ p + o \in Nat
             /\ \A i \in 1 .. m : o + i \in 1 .. l /\ p + (o + i) = (p + o) + i
  BY <1>1, <1>2, <1>5
<1>6. ASSUME o \in Hits(s)
      PROVE  o \in Nat /\ p + o \in Places(x) /\ o + m <= n /\ o + m < l
  <2>1. m \in 1 .. m
    BY <1>2
  <2>2. s[o + m] # Nul
    BY <1>2, <1>3, <1>6, <2>1
  <2>3. o + m <= n
    BY <1>1, <1>3, <1>5, <1>6, <2>1, <2>2
  <2>4. \A i \in 1 .. m : o + i <= n
    BY <1>1, <1>2, <1>3, <1>6, <2>3
  <2>5. \A i \in 1 .. m : x[(p + o) + i] = Target[i]
    BY <1>1, <1>3, <1>5, <1>6, <2>4
  <2>6. (p + o) + m <= Len(x)
    BY <1>1, <1>2, <1>3, <1>6, <2>3
  <2> QED BY <1>3, <1>4, <1>5, <1>6, <2>3, <2>5, <2>6
<1>7. ASSUME o \in Nat, p + o \in Places(x), o + m <= n, o + m < l
      PROVE  o \in Hits(s)
  <2>1. \A i \in 1 .. m : o + i <= n
    BY <1>1, <1>2, <1>7
  <2>2. \A i \in 1 .. m : s[o + i] = Target[i]
    BY <1>1, <1>4, <1>5, <1>7, <2>1
  <2> QED BY <1>3, <1>7, <2>2
<1> QED BY <1>6, <1>7 DEF m, l, x

\* The occurrences that lie between a and b: without b's last character when the buffer
\* is full, for its last byte is overwritten.
Lying(f, a, b) == {r \in Places(Text(f)) : a <= r /\ r + Len(Target) <= b}

LEMMA PiecePlaces ==
  ASSUME NEW f \in Files, NEW p, NEW n, NEW s, BufferOf(f, p, n, s)
  PROVE  /\ {p + o : o \in Hits(s)} \in {Lying(f, p, p + n), Lying(f, p, p + n - 1)}
         /\ \A o \in Hits(s) : p + o \in Nat /\ p <= p + o /\ p + o < p + n
<1> DEFINE m == Len(Target)
           l == BufferLen(f)
           H == Hits(s)
           P == Places(Text(f))
<1>1. p \in Nat /\ n \in 0 .. l /\ l \in Nat /\ m \in Nat \ {0}
  BY BufferFacts, BufferLenFacts, TargetFacts
<1>2. \A o : o \in H <=> o \in Nat /\ p + o \in P /\ o + m <= n /\ o + m < l
  BY PieceHits
<1>3. \A r \in P : r \in Nat
  BY PlacesOfText
<1> HIDE DEF m, l, H, P
<1>4. ASSUME NEW b \in {p + n, p + n - 1}, \A o \in Nat : o + m <= n /\ o + m < l <=> p + o + m <= b
      PROVE  {p + o : o \in H} = {r \in P : p <= r /\ r + m <= b}
  <2>1. ASSUME NEW o \in H
        PROVE  p + o \in P /\ p <= p + o /\ (p + o) + m <= b
    BY <1>1, <1>2, <1>4, <2>1
  <2>2. ASSUME NEW r \in P, p <= r, r + m <= b
        PROVE  \E o \in H : r = p + o
    <3>1. r - p \in Nat /\ r = p + (r - p) /\ p + (r - p) + m <= b
      BY <1>1, <1>3, <2>2
    <3>2. r - p \in H
      BY <1>2, <1>4, <2>2, <3>1
    <3> QED BY <3>1, <3>2
  <2> QED BY <2>1, <2>2
<1>5. CASE n < l
  <2>1. \A o \in Nat : o + m <= n /\ o + m < l <=> p + o + m <= p + n
    BY <1>1, <1>5
  <2> QED BY <1>1, <1>2, <1>4, <2>1 DEF Lying, m, H, P
<1>6. CASE n = l
  <2>1. \A o \in Nat : o + m <= n /\ o + m < l <=> p + o + m <= p + n - 1
    BY <1>1, <1>6
  <2> QED BY <1>1, <1>2, <1>4, <2>1 DEF Lying, m, H, P
<1> QED BY <1>1, <1>5, <1>6

-----------------------------------------------------------------------------
(* What stands around a match.                                               *)

\* What may be given as prefix and suffix of the place r of file f, which is o in its
\* buffer.
Prefixed(f, o, r, x) ==
  \/ o < Context /\ x = NullText
  \/ r >= Context /\ x = SubSeq(Text(f), r - Context + 1, r)
Suffixed(f, o, r, x) ==
  \/ o + Len(Target) + Context >= BufferLen(f) /\ x = NullText
  \/ \E n \in Immediate(f, r + Len(Target), Context) : x = Filled(f, r + Len(Target), n, Context)

LEMMA PrefixOf ==
  ASSUME NEW f \in Files, NEW p, NEW n, NEW s, BufferOf(f, p, n, s), NEW o \in Nat,
         o + Len(Target) <= n, o + Len(Target) < BufferLen(f)
  PROVE  Prefixed(f, o, p + o, Prefix(Terminated(s), o)) /\ Prefix(Terminated(s), o) \in Buffer
<1> DEFINE l == BufferLen(f)
           w == Terminated(s)
           x == Text(f)
           c == Context
           r == p + o
           a == SubSeq(w, o - c + 1, o)
           b == SubSeq(x, r - c + 1, r)
<1>1. /\ p \in Nat /\ n \in 0 .. l /\ p + n <= Len(x) /\ s \in Buffer /\ Len(s) = l
      /\ \A i \in 1 .. l : s[i] = IF i <= n THEN x[p + i] ELSE Nul
  BY BufferFacts
<1>2. /\ Len(Target) \in Nat \ {0} /\ c \in Nat /\ l \in Nat /\ x \in Seq(Char) /\ Len(x) \in Nat
      /\ w \in Seq(Char) /\ Len(w) = l /\ \A i \in 1 .. l - 1 : w[i] = s[i]
  BY <1>1, TargetFacts, TextFacts, BufferLenFacts, TerminatedFacts DEF Buffer
<1>3. o < n /\ o < l /\ r \in Nat /\ r = p + o /\ r <= Len(x)
  BY <1>1, <1>2
<1>4. Prefix(w, o) = IF o >= c THEN a ELSE NullText
  BY DEF Prefix
<1>5. NullText \in Seq(Char)
  BY Chars
<1>6. o \in Nat
  OBVIOUS
<1>7. (\A i \in 1 .. l : w[i] \in Char) /\ \A i \in 1 .. Len(x) : x[i] \in Char
  BY <1>2, ElementOfSeq
<1> HIDE DEF l, w, x, c, r
<1>8. ASSUME o >= c
      PROVE  a = b /\ a \in Seq(Char) /\ r >= c
  <2>1. r >= c
    BY <1>1, <1>2, <1>3, <1>6, <1>8
  <2>2. o - c + 1 \in Int /\ o \in Int /\ r - c + 1 \in Int /\ r \in Int
    BY <1>2, <1>3, <1>6
  <2>3. \A i \in o - c + 1 .. o : w[i] \in Char
    <3>1. \A i \in o - c + 1 .. o : i \in 1 .. l
      BY <1>2, <1>3, <1>6, <1>8
    <3> QED BY <1>7, <3>1
  <2>4. \A i \in r - c + 1 .. r : x[i] \in Char
    <3>1. \A i \in r - c + 1 .. r : i \in 1 .. Len(x)
      BY <1>2, <1>3, <2>1
    <3> QED BY <1>7, <3>1
  <2>5. /\ a \in Seq(Char) /\ Len(a) = IF o - c + 1 <= o THEN o - (o - c + 1) + 1 ELSE 0
        /\ \A i \in 1 .. o - (o - c + 1) + 1 : a[i] = w[(o - c + 1) + i - 1]
    BY <2>2, <2>3, SubSeqProperties, SMTT(60)
  <2>6. /\ b \in Seq(Char) /\ Len(b) = IF r - c + 1 <= r THEN r - (r - c + 1) + 1 ELSE 0
        /\ \A i \in 1 .. r - (r - c + 1) + 1 : b[i] = x[(r - c + 1) + i - 1]
    BY <2>2, <2>4, SubSeqProperties, SMTT(60)
  <2> HIDE DEF a, b
  <2>7. Len(a) = c /\ Len(b) = c
    <3>1. c \in Nat /\ o \in Nat /\ r \in Nat
      BY <1>2, <1>3, <1>6
    <3>2. (IF o - c + 1 <= o THEN o - (o - c + 1) + 1 ELSE 0) = c
      BY <3>1
    <3>3. (IF r - c + 1 <= r THEN r - (r - c + 1) + 1 ELSE 0) = c
      BY <3>1
    <3> QED BY <2>5, <2>6, <3>2, <3>3
  <2>8. ASSUME NEW i \in 1 .. c
        PROVE  a[i] = b[i]
    <3>1. i \in Nat /\ 1 <= i /\ i <= c
      BY <1>2
    <3>2. i \in 1 .. o - (o - c + 1) + 1 /\ (o - c + 1) + i - 1 = o - c + i
      BY <1>2, <1>6, <3>1
    <3>3. i \in 1 .. r - (r - c + 1) + 1 /\ (r - c + 1) + i - 1 = p + (o - c + i)
      BY <1>1, <1>2, <1>3, <1>6, <3>1
    <3>4. o - c + i \in 1 .. l - 1 /\ o - c + i \in 1 .. l /\ o - c + i <= n
      BY <1>1, <1>2, <1>3, <1>6, <1>8, <3>1
    <3>5. a[i] = w[o - c + i] /\ b[i] = x[p + (o - c + i)]
      BY <2>5, <2>6, <3>2, <3>3
    <3> QED BY <1>1, <1>2, <3>4, <3>5
  <2>9. a = b
    BY <2>5, <2>6, <2>7, <2>8, SeqEqual
  <2> QED BY <2>1, <2>5, <2>9
<1>9. CASE o >= c
  BY <1>4, <1>8, <1>9 DEF Prefixed, Buffer, w, r, x, c
<1>10. CASE o < c
  <2>1. ~(o >= c)
    BY <1>2, <1>6, <1>10
  <2> QED BY <1>4, <1>5, <1>10, <2>1 DEF Prefixed, Buffer, w, c
<1>11. o >= c \/ o < c
  BY <1>2, <1>6
<1> QED BY <1>9, <1>10, <1>11

LEMMA SuffixOf ==
  ASSUME NEW f \in Files, NEW p, NEW n, NEW s, BufferOf(f, p, n, s), NEW o \in Nat,
         o + Len(Target) <= n, o + Len(Target) < BufferLen(f)
  PROVE  Suffixed(f, o, p + o, Suffix(Terminated(s), o)) /\ Suffix(Terminated(s), o) \in Buffer
<1> DEFINE m == Len(Target)
           l == BufferLen(f)
           w == Terminated(s)
           x == Text(f)
           c == Context
           q == p + o + m
           k == IF o + m + c <= n THEN c ELSE n - (o + m)
           a == SubSeq(w, o + m + 1, o + m + c)
           b == Filled(f, q, k, c)
<1>1. /\ p \in Nat /\ n \in 0 .. l /\ p + n <= Len(x) /\ s \in Buffer /\ Len(s) = l
      /\ \A i \in 1 .. l : s[i] = IF i <= n THEN x[p + i] ELSE Nul
  BY BufferFacts
<1>2. /\ m \in Nat \ {0} /\ c \in Nat /\ l \in Nat /\ Len(x) \in Nat
      /\ w \in Seq(Char) /\ Len(w) = l /\ \A i \in 1 .. l - 1 : w[i] = s[i]
  BY <1>1, TargetFacts, TextFacts, BufferLenFacts, TerminatedFacts DEF Buffer
<1>3. o \in Nat /\ o + m <= n /\ o + m < l
  OBVIOUS
<1>4. Suffix(w, o) = IF o + m + c < l THEN a ELSE NullText
  BY <1>2 DEF Suffix
<1>5. NullText \in Seq(Char)
  BY Chars
<1>6. \A i \in 1 .. l : w[i] \in Char
  BY <1>2, ElementOfSeq
<1>7. n \in Immediate(f, p, l)
  BY DEF BufferOf
<1>8. /\ n \in 0 .. l /\ p + n <= Len(x)
      /\ f \notin Late => n = IF p + l <= Len(x) THEN l ELSE Len(x) - p
  <2>1. p \in 0 .. Len(x)
    BY <1>1, <1>2
  <2> QED BY <1>2, <1>7, <2>1, ImmediateFacts
<1> HIDE DEF m, l, w, x, c
<1>9. k \in Nat /\ q \in Nat /\ q + k <= Len(x)
  <2>1. p \in Nat /\ n \in Nat /\ p + n <= Len(x) /\ m \in Nat /\ c \in Nat /\ o + m <= n
    BY <1>1, <1>2, <1>3
  <2> QED BY <1>2, <2>1
<1>10. b \in Seq(Char) /\ Len(b) = c /\ \A i \in 1 .. c : b[i] = IF i <= k THEN x[q + i] ELSE Nul
  <2>1. c \in Nat
    BY <1>2
  <2> HIDE DEF k, q
  <2>2. q + k <= Len(Text(f))
    BY <1>9 DEF x
  <2>3. /\ Filled(f, q, k, c) \in Buffer /\ Len(Filled(f, q, k, c)) = c
        /\ \A i \in 1 .. c : Filled(f, q, k, c)[i] = IF i <= k THEN Text(f)[q + i] ELSE Nul
    BY <1>9, <2>1, <2>2, FilledFacts
  <2> QED BY <2>3 DEF Buffer, x
<1>11. ASSUME o + m + c < l
       PROVE  k \in Immediate(f, q, c)
  <2>1. k \in 0 .. (IF q + c <= Len(x) THEN c ELSE Len(x) - q)
    BY <1>1, <1>2, <1>3, <1>9
  <2>2. ASSUME f \notin Late
        PROVE  k = IF q + c <= Len(x) THEN c ELSE Len(x) - q
    <3>1. p \in Nat /\ n \in Nat /\ l \in Nat /\ m \in Nat /\ c \in Nat /\ Len(x) \in Nat
      BY <1>1, <1>2
    <3>2. n = IF p + l <= Len(x) THEN l ELSE Len(x) - p
      BY <1>8, <2>2
    <3>3. o + m + c <= n <=> q + c <= Len(x)
      BY <1>3, <1>11, <3>1, <3>2
    <3>4. CASE o + m + c <= n
      BY <3>3, <3>4
    <3>5. CASE ~(o + m + c <= n)
      <4>1. n = Len(x) - p
        BY <1>3, <1>11, <3>1, <3>2, <3>5
      <4> QED BY <1>3, <3>1, <3>3, <3>5, <4>1
    <3> QED BY <3>4, <3>5
  <2> HIDE DEF k, q
  <2> QED BY <2>1, <2>2 DEF Immediate, x
<1>12. ASSUME o + m + c < l
       PROVE  a = b
  <2>1. \A i \in o + m + 1 .. o + m + c : i \in 1 .. l
    BY <1>2, <1>3, <1>12
  <2>2. o + m + 1 \in Int /\ o + m + c \in Int
    BY <1>2, <1>3
  <2>3. /\ a \in Seq(Char)
        /\ Len(a) = IF o + m + 1 <= o + m + c THEN (o + m + c) - (o + m + 1) + 1 ELSE 0
        /\ \A i \in 1 .. (o + m + c) - (o + m + 1) + 1 : a[i] = w[(o + m + 1) + i - 1]
    BY <1>6, <2>1, <2>2, SubSeqProperties, SMTT(60)
  <2> HIDE DEF a, b
  <2>4. Len(a) = c
    <3>1. (IF o + m + 1 <= o + m + c THEN (o + m + c) - (o + m + 1) + 1 ELSE 0) = c
      BY <1>2, <1>3
    <3> QED BY <2>3, <3>1
  <2>5. ASSUME NEW i \in 1 .. c
        PROVE  a[i] = b[i]
    <3>0. p \in Nat /\ m \in Nat \ {0} /\ c \in Nat /\ l \in Nat /\ i \in 1 .. c
      BY <1>1, <1>2
    <3>1. /\ i \in 1 .. (o + m + c) - (o + m + 1) + 1 /\ (o + m + 1) + i - 1 = o + m + i
          /\ o + m + i \in 1 .. l - 1 /\ o + m + i \in 1 .. l
          /\ q + i = p + (o + m + i)
      BY <1>3, <1>12, <3>0
    <3>2. a[i] = IF o + m + i <= n THEN x[p + (o + m + i)] ELSE Nul
      BY <1>1, <1>2, <2>3, <3>1
    <3>3. o + m + i <= n <=> i <= k
      BY <1>1, <1>2, <1>3
    <3> QED BY <1>10, <3>1, <3>2, <3>3
  <2> QED BY <1>10, <2>3, <2>4, <2>5, SeqEqual
<1>13. CASE o + m + c < l
  <2> HIDE DEF a, k
  <2>1. Suffix(w, o) = b /\ k \in Immediate(f, q, c) /\ b \in Seq(Char)
    BY <1>4, <1>10, <1>11, <1>12, <1>13
  <2> QED BY <2>1 DEF Suffixed, Buffer, w, m, c
<1>14. CASE o + m + c >= l
  <2>1. ~(o + m + c < l)
    BY <1>2, <1>3, <1>14
  <2> QED BY <1>4, <1>5, <1>14, <2>1 DEF Suffixed, Buffer, w, m, c, l
<1>15. o + m + c < l \/ o + m + c >= l
  BY <1>2, <1>3
<1> QED BY <1>13, <1>14, <1>15

-----------------------------------------------------------------------------
(* The matches of a buffer.                                                  *)

Match == [offset : Nat, prefix : Buffer, suffix : Buffer]

\* A match of a buffer that begins at p of file f, with its context.
TrueMatch(f, p, m) == /\ p + m.offset \in Places(Text(f))
                      /\ Prefixed(f, m.offset, p + m.offset, m.prefix)
                      /\ Suffixed(f, m.offset, p + m.offset, m.suffix)

\* The matches v are different ones.
Found(f, p, v) == /\ v \in Seq(Match)
                  /\ \A i, j \in DOMAIN v : v[i].offset = v[j].offset => i = j
                  /\ \A i \in DOMAIN v : TrueMatch(f, p, v[i])

LEMMA FoundNothing ==
  ASSUME NEW f, NEW p
  PROVE  Found(f, p, <<>>) /\ PlacesOf(p, <<>>) = {}
<1>1. <<>> \in Seq(Match) /\ DOMAIN <<>> = {}
  BY EmptySeq
<1> QED BY <1>1 DEF Found, PlacesOf

\* process_chunk finds each match of a buffer once.
LEMMA ProcessFinds ==
  ASSUME NEW f \in Files, NEW p, NEW n, NEW s, BufferOf(f, p, n, s)
  PROVE  LET v == ProcessChunk(Terminated(s))
         IN  Found(f, p, v) /\ PlacesOf(p, v) = {p + o : o \in Hits(s)}
<1> DEFINE H == Hits(s)
           q == InOrder(H)
           w == Terminated(s)
           v == [i \in DOMAIN q |-> [offset |-> q[i], prefix |-> Prefix(w, q[i]),
                                     suffix |-> Suffix(w, q[i])]]
<1>1. ProcessChunk(w) = v
  BY DEF ProcessChunk, Hits
<1>2. Len(w) + 1 \in Nat /\ H \in SUBSET (0 .. (Len(w) + 1) - 1)
  <2>1. Len(w) \in Nat
    BY BufferFacts, TerminatedFacts
  <2>2. 0 .. (Len(w) + 1) - 1 = 0 .. Len(w)
    BY <2>1
  <2> QED BY <2>1, <2>2 DEF Hits, Places
<1> HIDE DEF H
<1>3. PICK k \in Nat : /\ q \in [1 .. k -> H]
                       /\ \A x \in H : \E i \in 1 .. k : q[i] = x
                       /\ \A i, j \in 1 .. k : q[i] = q[j] => i = j
  BY <1>2, InOrderLists
<1>4. \A i \in 1 .. k : q[i] \in H
  BY <1>3
<1>5. \A o \in H : /\ o \in Nat /\ p + o \in Places(Text(f))
                   /\ Prefixed(f, o, p + o, Prefix(w, o)) /\ Prefix(w, o) \in Buffer
                   /\ Suffixed(f, o, p + o, Suffix(w, o)) /\ Suffix(w, o) \in Buffer
  <2> SUFFICES ASSUME NEW o \in H
               PROVE  /\ o \in Nat /\ p + o \in Places(Text(f))
                      /\ Prefixed(f, o, p + o, Prefix(w, o)) /\ Prefix(w, o) \in Buffer
                      /\ Suffixed(f, o, p + o, Suffix(w, o)) /\ Suffix(w, o) \in Buffer
    OBVIOUS
  <2>1. /\ o \in Nat /\ p + o \in Places(Text(f))
        /\ o + Len(Target) <= n /\ o + Len(Target) < BufferLen(f)
    BY PieceHits DEF H
  <2> QED BY <2>1, PrefixOf, SuffixOf
<1> HIDE DEF q, w
<1>6. DOMAIN v = 1 .. k /\ DOMAIN q = 1 .. k
  BY <1>3
<1>7. \A i \in 1 .. k : v[i] = [offset |-> q[i], prefix |-> Prefix(w, q[i]), suffix |-> Suffix(w, q[i])]
  BY <1>6
<1>8. \A i \in 1 .. k : v[i].offset = q[i] /\ v[i] \in Match /\ TrueMatch(f, p, v[i])
  <2> SUFFICES ASSUME NEW i \in 1 .. k
               PROVE  v[i].offset = q[i] /\ v[i] \in Match /\ TrueMatch(f, p, v[i])
    OBVIOUS
  <2> HIDE DEF v
  <2>1. PICK o \in H : o = q[i]
    BY <1>4
  <2>2. v[i] = [offset |-> o, prefix |-> Prefix(w, o), suffix |-> Suffix(w, o)]
    BY <1>7, <2>1
  <2>3. v[i].offset = o /\ v[i].prefix = Prefix(w, o) /\ v[i].suffix = Suffix(w, o)
    BY <2>2
  <2>4. v[i] \in Match
    BY <1>5, <2>2 DEF Match
  <2> QED BY <1>5, <2>1, <2>3, <2>4 DEF TrueMatch
<1>9. v \in [1 .. k -> Match]
  BY <1>6, <1>8
<1>10. v \in Seq(Match)
  BY <1>9, FunctionIsSeq
<1>11. PlacesOf(p, v) = {p + o : o \in H}
  BY <1>3, <1>4, <1>6, <1>8 DEF PlacesOf
<1> HIDE DEF v
<1>12. Found(f, p, v)
  BY <1>3, <1>6, <1>8, <1>10 DEF Found
<1> QED BY <1>1, <1>11, <1>12 DEF H, w

-----------------------------------------------------------------------------
(* What is printed of a text.                                                *)

Control == {"tab", "newline", "return"}
Plain == Char \ Control

\* The beginnings of a sequence of texts, put together.
Joined(q, n, g) == g = [i \in 1 .. n |-> IF i = 1 THEN q[i] ELSE g[i - 1] \o q[i]]

LEMMA JoinedExists ==
  ASSUME NEW n \in Nat, NEW q \in [1 .. n -> Seq(Plain)]
  PROVE  \E g : Joined(q, n, g)
<1> DEFINE Good == {m \in Nat : m <= n => \E g : Joined(q, m, g)}
<1>1. 0 \in Good
  <2> DEFINE g == [i \in 1 .. 0 |-> q[i]]
  <2>1. 1 .. 0 = {}
    BY SMT
  <2>2. Joined(q, 0, g)
    BY <2>1 DEF Joined
  <2> HIDE DEF g
  <2> QED BY <2>2
<1>2. ASSUME NEW m \in Nat, m \in Good
      PROVE  m + 1 \in Good
  <2> SUFFICES ASSUME m + 1 <= n PROVE \E g : Joined(q, m + 1, g)
    OBVIOUS
  <2>1. PICK g : Joined(q, m, g)
    BY <1>2
  <2> DEFINE h == [i \in 1 .. m + 1 |-> IF i = 1 THEN q[i] ELSE g[i - 1] \o q[i]]
  <2>2. g = [i \in 1 .. m |-> IF i = 1 THEN q[i] ELSE g[i - 1] \o q[i]]
    BY <2>1 DEF Joined
  <2>3. ASSUME NEW i \in 1 .. m + 1, i # 1
        PROVE  h[i - 1] = g[i - 1]
    <3>1. i - 1 \in 1 .. m /\ i - 1 \in 1 .. m + 1
      BY <2>3, SMT
    <3>2. g[i - 1] = IF i - 1 = 1 THEN q[i - 1] ELSE g[(i - 1) - 1] \o q[i - 1]
      BY <2>2, <3>1, Zenon
    <3>3. h[i - 1] = IF i - 1 = 1 THEN q[i - 1] ELSE g[(i - 1) - 1] \o q[i - 1]
      BY <3>1, Zenon
    <3> QED BY <3>2, <3>3
  <2>4. \A i \in 1 .. m + 1 : h[i] = IF i = 1 THEN q[i] ELSE h[i - 1] \o q[i]
    <3>1. \A i \in 1 .. m + 1 : h[i] = IF i = 1 THEN q[i] ELSE g[i - 1] \o q[i]
      BY Zenon
    <3> HIDE DEF h
    <3> QED BY <2>3, <3>1, Zenon
  <2>5. h = [i \in 1 .. m + 1 |-> IF i = 1 THEN q[i] ELSE h[i - 1] \o q[i]]
    <3> DEFINE e == [i \in 1 .. m + 1 |-> IF i = 1 THEN q[i] ELSE h[i - 1] \o q[i]]
    <3>1. DOMAIN h = 1 .. m + 1 /\ h = [i \in DOMAIN h |-> h[i]]
      BY Zenon
    <3> HIDE DEF h
    <3> QED BY <2>4, <3>1, Zenon
  <2> HIDE DEF h
  <2>6. Joined(q, m + 1, h)
    BY <2>5 DEF Joined
  <2> QED BY <2>6
<1> HIDE DEF Good
<1>3. Nat \subseteq Good
  BY <1>1, <1>2, NumberInduction, Zenon
<1> QED BY <1>3, SMT DEF Good

\* What is put together of plain texts is one.
LEMMA JoinedPlain ==
  ASSUME NEW n \in Nat \ {0}, NEW q \in [1 .. n -> Seq(Plain)], NEW g, Joined(q, n, g)
  PROVE  g[n] \in Seq(Plain)
<1> DEFINE Good == {m \in 0 .. n - 1 : g[m + 1] \in Seq(Plain)}
<1>1. \A i \in 1 .. n : g[i] = IF i = 1 THEN q[i] ELSE g[i - 1] \o q[i]
  BY Zenon DEF Joined
<1>2. 0 \in Good
  <2>1. 1 \in 1 .. n /\ 0 \in 0 .. n - 1 /\ 0 + 1 = 1
    BY SMT
  <2> QED BY <1>1, <2>1
<1>3. ASSUME NEW m \in 0 .. (n - 1) - 1, m \in Good
      PROVE  m + 1 \in Good
  <2>1. m + 1 \in 0 .. n - 1 /\ (m + 1) + 1 \in 1 .. n /\ (m + 1) + 1 # 1 /\ ((m + 1) + 1) - 1 = m + 1
    BY SMT
  <2>2. g[(m + 1) + 1] = g[m + 1] \o q[(m + 1) + 1]
    BY <1>1, <2>1
  <2>3. g[m + 1] \in Seq(Plain) /\ q[(m + 1) + 1] \in Seq(Plain)
    BY <1>3, <2>1
  <2>4. g[(m + 1) + 1] \in Seq(Plain)
    BY <2>2, <2>3, ConcatProperties
  <2> QED BY <2>1, <2>4
<1> HIDE DEF Good
<1>4. n - 1 \in Nat /\ n - 1 \in 0 .. n - 1 /\ (n - 1) + 1 = n
  BY SMT
<1>5. 0 .. n - 1 \subseteq Good
  BY <1>2, <1>3, <1>4, InductionTo, Zenon
<1>6. n - 1 \in Good
  BY <1>4, <1>5
<1> QED BY <1>4, <1>6 DEF Good

LEMMA EscapePlain == \A c \in Char : Escape(c) \in Seq(Plain)
<1> SUFFICES ASSUME NEW c \in Char PROVE Escape(c) \in Seq(Plain)
  OBVIOUS
<1>1. {"\\t", "\\n", "\\r", "\\b", "<space>"} \subseteq Plain
  BY DEF Plain, Char, Control
<1>2. c \notin Control => c \in Plain
  BY DEF Plain
<1>3. \A x \in Plain : <<x>> \in Seq(Plain)
  OBVIOUS
<1>4. \A x, y \in Plain : <<x, y>> \in Seq(Plain)
  OBVIOUS
<1>5. Escape(c) \in {<<"\\t">>, <<"\\n">>, <<"\\r">>, <<"\\b", "<space>">>, <<"<space>">>} \/
      (Escape(c) = <<c>> /\ c \notin Control)
  BY ZenonT(100) DEF Escape, Control
<1> QED BY <1>1, <1>2, <1>3, <1>4, <1>5

\* No control character is printed.
LEMMA FormatPlain ==
  ASSUME NEW s \in Buffer
  PROVE  FormatString(s) \in Seq(Plain)
<1> DEFINE n == Len(s)
           q == [i \in DOMAIN s |-> Escape(s[i])]
<1>1. n \in Nat /\ DOMAIN s = 1 .. n /\ \A i \in 1 .. n : s[i] \in Char
  BY LenProperties, ElementOfSeq DEF Buffer
<1>2. q \in [1 .. n -> Seq(Plain)]
  BY <1>1, EscapePlain
<1>3. Len(q) = n
  BY <1>1, <1>2, FunctionIsSeq
<1>4. FormatString(s) = FlattenSeq(q)
  BY DEF FormatString
<1> HIDE DEF q, n
<1>5. CASE n = 0
  <2>1. q = <<>>
    BY <1>2, <1>5, <1>3, FunctionIsSeq, EmptySeq
  <2> QED BY <1>3, <1>4, <1>5, <2>1, EmptySeq DEF FlattenSeq
<1>6. CASE n # 0
  <2> DEFINE g == CHOOSE f : f = [i \in 1 .. Len(q) |-> IF i = 1 THEN q[i] ELSE f[i - 1] \o q[i]]
  <2>1. FlattenSeq(q) = g[n]
    BY <1>3, <1>6, Zenon DEF FlattenSeq
  <2>2. \E f : f = [i \in 1 .. Len(q) |-> IF i = 1 THEN q[i] ELSE f[i - 1] \o q[i]]
    BY <1>1, <1>2, <1>3, JoinedExists DEF Joined
  <2>3. g = [i \in 1 .. Len(q) |-> IF i = 1 THEN q[i] ELSE g[i - 1] \o q[i]]
    BY <2>2, Zenon
  <2> HIDE DEF g
  <2>4. Joined(q, n, g)
    BY <1>3, <2>3 DEF Joined
  <2> QED BY <1>1, <1>2, <1>4, <1>6, <2>1, <2>4, JoinedPlain
<1> QED BY <1>5, <1>6

\* (null) is printed as it is.
LEMMA FormatNull == FormatString(NullText) = NullText
<1> DEFINE q == [i \in DOMAIN NullText |-> Escape(NullText[i])]
<1>1. NullText = <<"(null)">> /\ Len(NullText) = 1 /\ DOMAIN NullText = 1 .. 1
  BY DEF NullText
<1>2. Escape("(null)") = <<"(null)">>
  BY DEF Escape
<1>3. q = [i \in 1 .. 1 |-> NullText] /\ 1 \in 1 .. 1
  BY <1>1, <1>2
<1>4. NullText \in Seq(Plain)
  <2>1. "(null)" \in Plain
    BY DEF Plain, Char, Control
  <2> QED BY <1>1, <2>1
<1>5. q \in [1 .. 1 -> Seq(Plain)] /\ q[1] = NullText
  BY <1>3, <1>4
<1>6. FormatString(NullText) = FlattenSeq(q)
  BY DEF FormatString
<1> HIDE DEF q
<1>7. Len(q) = 1 /\ Len(q) # 0
  <2>1. Len(q) = 1
    BY <1>5, FunctionIsSeq
  <2> QED BY <2>1
<1> DEFINE g == CHOOSE f : f = [i \in 1 .. Len(q) |-> IF i = 1 THEN q[i] ELSE f[i - 1] \o q[i]]
<1>8. FlattenSeq(q) = g[1]
  BY <1>7, Zenon DEF FlattenSeq
<1>9. \E f : f = [i \in 1 .. Len(q) |-> IF i = 1 THEN q[i] ELSE f[i - 1] \o q[i]]
  BY <1>5, <1>7, JoinedExists DEF Joined
<1>10. g = [i \in 1 .. Len(q) |-> IF i = 1 THEN q[i] ELSE g[i - 1] \o q[i]]
  BY <1>9, Zenon
<1> HIDE DEF g
<1>11. g[1] = q[1]
  BY <1>3, <1>7, <1>10, Zenon
<1> QED BY <1>5, <1>6, <1>8, <1>11

\* A line about a file, with the context its place has there.
TrueLine(l) ==
  /\ l.file \in Files /\ l.by \in Threads
  /\ \E x, y \in Buffer : /\ Prefixed(l.file, l.offset, l.place, x) /\ l.prefix = FormatString(x)
                          /\ Suffixed(l.file, l.offset, l.place, y) /\ l.suffix = FormatString(y)

LEMMA LinesTrue ==
  ASSUME \A i \in DOMAIN printed : TrueLine(printed[i])
  PROVE  ContextFromFile
<1> SUFFICES ASSUME NEW i \in DOMAIN printed
    PROVE LET l == printed[i]
              after == l.place + Len(Target)
          IN  /\ \/ l.offset < Context /\ l.prefix = NullText
                 \/ /\ l.place >= Context
                    /\ l.prefix = FormatString(SubSeq(Text(l.file), l.place - Context + 1, l.place))
              /\ \/ /\ l.offset + Len(Target) + Context >= BufferLen(l.file)
                    /\ l.suffix = NullText
                 \/ \E n \in Immediate(l.file, after, Context) :
                      l.suffix = FormatString(Filled(l.file, after, n, Context))
              /\ \A c \in {"tab", "newline", "return"} :
                   ~Contains(l.prefix, c) /\ ~Contains(l.suffix, c)
  BY DEF ContextFromFile
<1> DEFINE l == printed[i]
<1>1. PICK x \in Buffer, y \in Buffer :
        /\ Prefixed(l.file, l.offset, l.place, x) /\ l.prefix = FormatString(x)
        /\ Suffixed(l.file, l.offset, l.place, y) /\ l.suffix = FormatString(y)
  BY DEF TrueLine
<1>2. \/ l.offset < Context /\ l.prefix = NullText
      \/ /\ l.place >= Context
         /\ l.prefix = FormatString(SubSeq(Text(l.file), l.place - Context + 1, l.place))
  BY <1>1, FormatNull DEF Prefixed
<1>3. \/ /\ l.offset + Len(Target) + Context >= BufferLen(l.file)
         /\ l.suffix = NullText
      \/ \E n \in Immediate(l.file, l.place + Len(Target), Context) :
           l.suffix = FormatString(Filled(l.file, l.place + Len(Target), n, Context))
  BY <1>1, FormatNull DEF Suffixed
<1>4. l.prefix \in Seq(Plain) /\ l.suffix \in Seq(Plain)
  BY <1>1, FormatPlain
<1>5. ASSUME NEW t \in Seq(Plain), NEW c \in Control
      PROVE  ~Contains(t, c)
  <2>1. \A j \in 1 .. Len(t) : t[j] \in Plain
    BY <1>5, ElementOfSeq
  <2> QED BY <2>1, <1>5 DEF Contains, Plain
<1>6. \A c \in {"tab", "newline", "return"} : ~Contains(l.prefix, c) /\ ~Contains(l.suffix, c)
  BY <1>4, <1>5 DEF Control
<1> HIDE DEF l
<1> QED BY <1>2, <1>3, <1>6 DEF l

-----------------------------------------------------------------------------
(* Where what was found is: in one thread's hands, behind the stream.        *)

\* No two threads hold the same place, and nobody one the stream has not come to.
Accounted ==
  /\ \A t, u \in Threads : \A r \in Hand(t) : r \in Hand(u) => t = u
  /\ open => \A t \in Threads : \A r \in Hand(t) : r < streampos

\* The threads that have not taken their chunk from the stream.
Waiting == {t \in Slots : stage[t] \in {"lock", "read", "advance"}}

\* The stream stops at the end of the file.
UpTo(f, p) == IF p < Len(Text(f)) THEN p ELSE Len(Text(f))

\* k reads are done, and the loop has asked for those and for one per waiting thread;
\* where readsome delivers all there is, a file that is done with was read to its end.
StreamInv ==
  /\ streampos \in Nat /\ left \in 0 .. SizeMod - 1
  /\ open => /\ cur \in Files \ Unopenable /\ Len(Text(cur)) >= SizeLimit
             /\ streampos <= Len(Text(cur))
             /\ \E k \in Nat :
                  /\ cur \notin Late => streampos = UpTo(cur, k * Chunk)
                  /\ left = (Len(Text(cur)) - (k + Cardinality(Waiting)) * Chunk) % SizeMod
  /\ pc \in {"next", "print", "done"} => ~open
  /\ pc = "joinall" => left = 0
  /\ pc \in {"next", "print"} =>
       (cur \in Files \ (Unopenable \cup Late) /\ Len(Text(cur)) >= SizeLimit
         => streampos = Len(Text(cur)))

Local(t) ==
  /\ Len(buf[t]) \in {0, Chunk}
  /\ stage[t] \in {"lock", "read"} => Len(buf[t]) = Chunk
  /\ stage[t] = "advance" => from[t] = streampos /\ BufferOf(cur, from[t], got[t], buf[t])
  /\ stage[t] = "unlock" => \E n : BufferOf(cur, from[t], n, buf[t])
  /\ stage[t] \in {"format", "print"} =>
       cur \in Files /\ job[t] = cur /\ Found(cur, from[t], out[t])
  /\ t = Main => from[t] = 0
LocalInv == \A t \in Threads : Local(t)

LocalShapes ==
  /\ from \in [Threads -> Nat] /\ buf \in [Threads -> Buffer] /\ out \in [Threads -> Seq(Match)]
  /\ got \in [Threads -> 0 .. Chunk] /\ single \in BOOLEAN

LinesInv == Listed /\ \A i \in DOMAIN printed : TrueLine(printed[i])

SInv == IInv /\ StreamInv /\ LocalShapes /\ LocalInv /\ LinesInv /\ Accounted

\* A step that finds nothing and prints nothing.
Unseen == /\ UNCHANGED <<todo, cur, streampos, printed>>
          /\ \A t \in Threads : Hand(t)' = Hand(t)

-----------------------------------------------------------------------------
(* Numbers.                                                                  *)

\* Unsigned subtraction may be done before or after the wrap.
LEMMA WrapOnce ==
  ASSUME NEW m \in Nat \ {0}, NEW x \in Int, NEW c \in Int
  PROVE  ((x % m) - c) % m = (x - c) % m
<1> DEFINE d == x \div m
           a == x % m
           y == (x - c) % m
           z == (x - c) \div m
           u == (a - c) % m
           v == (a - c) \div m
<1>1. d \in Int /\ a \in 0 .. m - 1 /\ x = m * d + a
  BY SMT
<1>2. z \in Int /\ y \in 0 .. m - 1 /\ x - c = m * z + y
  BY SMT
<1>3. a - c \in Int
  BY <1>1
<1>4. v \in Int /\ u \in 0 .. m - 1 /\ a - c = m * v + u
  BY <1>3, SMT
<1> HIDE DEF a, d, y, z, u, v
<1>5. m * (z - d - v) = u - y
  <2> DEFINE A == m * d
             B == m * z
             C == m * v
  <2>1. A \in Int /\ B \in Int /\ C \in Int
    BY <1>1, <1>2, <1>4, SMT
  <2>2. m * (z - d - v) = B - A - C
    BY <1>1, <1>2, <1>4, SMT
  <2> HIDE DEF A, B, C
  <2>3. x = A + a /\ x - c = B + y /\ a - c = C + u
    BY <1>1, <1>2, <1>4 DEF A, B, C
  <2> QED BY <1>1, <1>2, <1>4, <2>1, <2>2, <2>3
<1> DEFINE e == z - d - v
<1>6. e \in Int /\ m * e = u - y
  BY <1>1, <1>2, <1>4, <1>5
<1> HIDE DEF e
<1>7. -m < m * e /\ m * e < m
  BY <1>2, <1>4, <1>6
<1>8. e = 0
  <2>1. e >= 1 => m * e >= m
    BY <1>6, Z3
  <2>2. e <= -1 => m * e <= -m
    BY <1>6, Z3
  <2> QED BY <1>6, <1>7, <2>1, <2>2
<1>9. u = y
  BY <1>2, <1>4, <1>6, <1>8
<1> QED BY <1>9 DEF u, y, a

\* When the count has come to 0, all of the file has been asked for.
LEMMA AllAsked ==
  ASSUME NEW m \in Nat \ {0}, NEW n \in 0 .. m - 1, NEW y \in Nat, (n - y) % m = 0
  PROVE  n <= y
<1> SUFFICES ASSUME ~(n <= y) PROVE FALSE
  OBVIOUS
<1>1. n - y \in 1 .. m - 1
  BY SMT
<1>2. 0 * m + (n - y) = n - y /\ n - y \in 0 .. m - 1
  BY <1>1, SMT
<1>3. (0 * m + (n - y)) % m = n - y
  BY <1>2, InChunk
<1> QED BY <1>1, <1>2, <1>3

-----------------------------------------------------------------------------
(* What a step leaves alone.                                                 *)

LEMMA HandSame ==
  ASSUME NEW t \in Threads, stage'[t] = stage[t], buf'[t] = buf[t], from'[t] = from[t],
         out'[t] = out[t]
  PROVE  Hand(t)' = Hand(t)
BY DEF Hand

LEMMA LocalSame ==
  ASSUME NEW t \in Threads, Local(t), stage'[t] = stage[t], buf'[t] = buf[t],
         from'[t] = from[t], got'[t] = got[t], out'[t] = out[t], job'[t] = job[t], cur' = cur,
         stage[t] = "advance" => streampos' = streampos
  PROVE  Local(t)'
BY DEF Local

LEMMA LinesSame == LinesInv /\ UNCHANGED printed => LinesInv'
BY DEF LinesInv, Listed

LEMMA AccountedSame ==
  ASSUME Accounted, UNCHANGED <<open, streampos>>, \A t \in Threads : Hand(t)' = Hand(t)
  PROVE  Accounted'
BY DEF Accounted

\* The steps that only move a thread on, or the main thread along its loop.
Moves(t) == \/ stage'[t] = stage[t]
            \/ stage[t] = "exit" /\ stage'[t] = "idle"
            \/ stage[t] = "lock" /\ stage'[t] = "read"
            \/ stage[t] = "format" /\ stage'[t] = "print"

LEMMA MoveStep ==
  ASSUME SInv, IInv', UNCHANGED <<single, todo, cur, left, stream, locals, printed>>,
         NEW t \in Threads, Moves(t), \A u \in Threads \ {t} : stage'[u] = stage[u],
         pc' \in {"next", "print", "done"} => ~open, pc' = "joinall" => left = 0,
         pc' \in {"next", "print"} => pc \in {"next", "print"}
  PROVE  SInv' /\ Unseen
<1>0. UNCHANGED <<open, streampos, job, buf, from, got, out>>
  BY DEF stream, locals
<1>1. Waiting' = Waiting
  BY DEF Waiting, Moves, Threads
<1>2. StreamInv'
  BY <1>0, <1>1 DEF SInv, StreamInv
<1>3. LocalShapes'
  BY <1>0 DEF SInv, LocalShapes
<1>4. LocalInv'
  <2>1. \A u \in Threads : Local(u)
    BY DEF SInv, LocalInv
  <2>2. \A u \in Threads \ {t} : Local(u)'
    BY <1>0, <2>1, LocalSame
  <2>3. Local(t)'
    BY <1>0, <2>1 DEF Local, Moves
  <2> QED BY <2>2, <2>3 DEF LocalInv
<1>5. LinesInv'
  BY LinesSame DEF SInv
<1>6. \A u \in Threads : Hand(u)' = Hand(u)
  <2>1. \A u \in Threads \ {t} : Hand(u)' = Hand(u)
    BY <1>0, HandSame
  <2>2. Hand(t)' = Hand(t)
    BY <1>0 DEF Hand, Moves
  <2> QED BY <2>1, <2>2
<1>7. Accounted'
  BY <1>0, <1>6, AccountedSame DEF SInv
<1> QED BY <1>0, <1>2, <1>3, <1>4, <1>5, <1>6, <1>7 DEF SInv, Unseen

LEMMA ThreadMoves ==
  ASSUME SInv, NEW t \in Threads, LockRead(t) \/ LockFormat(t)
  PROVE  SInv' /\ Unseen
<1>1. IInv'
  BY ThreadInv DEF SInv, ThreadStep
<1>2. /\ UNCHANGED <<main, stream, locals, printed>>
      /\ \/ stage[t] = "lock" /\ stage' = [stage EXCEPT ![t] = "read"]
         \/ stage[t] = "format" /\ stage' = [stage EXCEPT ![t] = "print"]
  BY DEF LockRead, LockFormat
<1>3. stage \in [Threads -> Stages]
  BY DEF SInv, IInv, Shapes
<1>4. Moves(t) /\ \A u \in Threads \ {t} : stage'[u] = stage[u]
  BY <1>2, <1>3 DEF Moves
<1>5. UNCHANGED <<single, todo, cur, left, pc>>
  BY <1>2 DEF main
<1>6. /\ pc \in {"next", "print", "done"} => ~open
      /\ pc = "joinall" => left = 0
  BY DEF SInv, StreamInv
<1> QED BY <1>1, <1>2, <1>4, <1>5, <1>6, MoveStep

\* A step of the main thread that moves no thread, or one that has ended.
LEMMA MainMoves ==
  ASSUME SInv, OutputDone \/ Crash \/ LoopEnds \/ Join \/ Finish
  PROVE  SInv' /\ Unseen
<1> USE Identities
<1>1. IInv'
  BY OutputDoneStep, CrashStep, LoopEndsStep, JoinStep, FinishStep DEF SInv
<1>2. UNCHANGED <<single, todo, cur, left, stream, locals, printed>>
  BY DEF OutputDone, Crash, LoopEnds, Join, Finish
<1>3. stage \in [Threads -> Stages] /\ spawned \in 0 .. ThreadLimit + 1 /\ joined \in 0 .. spawned
  BY DEF SInv, IInv, Shapes
<1>4. /\ pc \in {"next", "print", "done"} => ~open
      /\ pc = "joinall" => left = 0
  BY DEF SInv, StreamInv
<1>5. /\ pc' \in {"next", "print", "done"} => ~open
      /\ pc' = "joinall" => left = 0
      /\ pc' \in {"next", "print"} => pc \in {"next", "print"}
  BY <1>4 DEF OutputDone, Crash, LoopEnds, Join, Finish
<1>6. CASE stage' = stage
  BY <1>1, <1>2, <1>5, <1>6, MoveStep DEF Moves
<1>7. CASE OutputDone
  <2>1. stage[Main] = "exit" /\ stage' = [stage EXCEPT ![Main] = "idle"]
    BY <1>7 DEF OutputDone
  <2>2. Moves(Main) /\ \A u \in Threads \ {Main} : stage'[u] = stage[u]
    BY <1>3, <2>1 DEF Moves
  <2> QED BY <1>1, <1>2, <1>5, <2>2, MoveStep
<1>8. CASE Join
  <2>1. stage[joined + 1] = "exit" /\ stage' = [stage EXCEPT ![joined + 1] = "idle"] /\ joined < spawned
    BY <1>8 DEF Join
  <2>2. joined + 1 \in Threads
    BY <1>3, <2>1
  <2>3. Moves(joined + 1) /\ \A u \in Threads \ {joined + 1} : stage'[u] = stage[u]
    BY <1>3, <2>1, <2>2 DEF Moves
  <2> QED BY <1>1, <1>2, <1>5, <2>2, <2>3, MoveStep
<1> QED BY <1>6, <1>7, <1>8 DEF Crash, LoopEnds, Finish

-----------------------------------------------------------------------------
(* A thread takes a chunk.                                                   *)

\* Only one thread is between its lock and its unlock of fread_mutex, and not the main one.
LEMMA OneReads ==
  ASSUME IInv, NEW t \in Threads, stage[t] \in Reading
  PROVE  t \in Slots /\ open /\ job[t] = cur /\ \A u \in Threads : stage[u] \in Reading => u = t
<1>1. t # Main
  BY DEF IInv, MainInv, Reading
<1>2. t \in Slots
  BY <1>1 DEF Threads
<1>3. open /\ job[t] = cur
  BY <1>2 DEF IInv, PoolInv, Reading
<1>4. \A u \in Threads : stage[u] \in Reading => u = t
  BY DEF IInv, MutexInv
<1> QED BY <1>2, <1>3, <1>4

\* What a thread holds are places in its file.
LEMMA HandNumbers ==
  ASSUME SInv, NEW t \in Threads, NEW r \in Hand(t)
  PROVE  r \in Nat
<1>1. Local(t) /\ from[t] \in Nat
  BY DEF SInv, LocalInv, LocalShapes
<1>2. CASE stage[t] = "unlock"
  <2>1. PICK n : BufferOf(cur, from[t], n, buf[t])
    BY <1>1, <1>2 DEF Local
  <2>2. cur \in Files
    BY <1>2, OneReads DEF SInv, StreamInv, Reading
  <2>3. PICK o \in Hits(buf[t]) : r = from[t] + o
    BY <1>2 DEF Hand
  <2> QED BY <2>1, <2>2, <2>3, PiecePlaces
<1>3. CASE stage[t] \in {"format", "print"}
  <2>1. Found(cur, from[t], out[t]) /\ cur \in Files
    BY <1>1, <1>3 DEF Local
  <2>2. PICK i \in DOMAIN out[t] : r = from[t] + out[t][i].offset
    BY <1>3 DEF Hand, PlacesOf
  <2>3. r \in Places(Text(cur))
    BY <2>1, <2>2 DEF Found, TrueMatch
  <2> QED BY <2>1, <2>3, PlacesOfText
<1> QED BY <1>2, <1>3 DEF Hand

LEMMA ReadStep ==
  ASSUME SInv, NEW t \in Threads, ReadSome(t)
  PROVE  SInv' /\ Unseen
<1>1. IInv'
  BY ThreadInv DEF SInv, ThreadStep
<1>2. stage[t] = "read" /\ stage \in [Threads -> Stages]
  BY DEF ReadSome, SInv, IInv, Shapes
<1>3. t \in Slots /\ open /\ job[t] = cur /\ t # Main
  BY <1>2, OneReads DEF SInv, Reading, IInv, MainInv
<1>4. /\ cur \in Files \ Unopenable /\ streampos \in Nat /\ Len(buf[t]) = Chunk
      /\ Chunk \in Nat \ {0} /\ Len(Text(cur)) >= SizeLimit /\ streampos <= Len(Text(cur))
  BY <1>2, <1>3, TargetFacts DEF SInv, StreamInv, LocalInv, Local
<1>5. /\ buf \in [Threads -> Buffer] /\ from \in [Threads -> Nat] /\ out \in [Threads -> Seq(Match)]
      /\ got \in [Threads -> 0 .. Chunk]
  BY DEF SInv, LocalShapes
<1>6. PICK n \in Immediate(cur, streampos, Chunk) :
        /\ buf' = [buf EXCEPT ![t] = Filled(cur, streampos, n, Chunk)]
        /\ got' = [got EXCEPT ![t] = n]
  BY <1>4 DEF ReadSome
<1>7. /\ from' = [from EXCEPT ![t] = streampos]
      /\ stage' = [stage EXCEPT ![t] = "advance"]
      /\ UNCHANGED <<single, todo, cur, pc, left, open, streampos, job, out, printed>>
  BY DEF ReadSome, main, stream
<1> DEFINE s == Filled(cur, streampos, n, Chunk)
<1>8. BufferOf(cur, streampos, n, s) /\ BufferLen(cur) = Chunk
  <2>1. Len(Text(cur)) \in Nat /\ BufferLen(cur) = Chunk
    BY <1>4, TextFacts, BufferLenFacts
  <2>2. streampos \in 0 .. Len(Text(cur))
    BY <1>4, <2>1
  <2> QED BY <1>6, <2>1, <2>2 DEF BufferOf
<1> HIDE DEF s
<1>9. s \in Buffer /\ Len(s) = Chunk /\ n \in 0 .. Chunk
  BY <1>4, <1>8, BufferFacts
<1>10. /\ buf'[t] = s /\ from'[t] = streampos /\ stage'[t] = "advance" /\ got'[t] = n
       /\ \A u \in Threads \ {t} : /\ buf'[u] = buf[u] /\ from'[u] = from[u]
                                   /\ stage'[u] = stage[u] /\ got'[u] = got[u]
  BY <1>2, <1>5, <1>6, <1>7 DEF s
<1>11. LocalShapes'
  BY <1>4, <1>5, <1>6, <1>7, <1>9 DEF SInv, LocalShapes, s
<1>12. StreamInv'
  <2>1. Waiting' = Waiting
    BY <1>2, <1>10 DEF Waiting, Threads
  <2> QED BY <1>7, <2>1 DEF SInv, StreamInv
<1>13. LocalInv'
  <2>1. \A u \in Threads : Local(u)
    BY DEF SInv, LocalInv
  <2>2. \A u \in Threads \ {t} : Local(u)'
    BY <1>7, <1>10, <2>1, LocalSame
  <2>3. Local(t)'
    BY <1>3, <1>7, <1>8, <1>9, <1>10 DEF Local
  <2> QED BY <2>2, <2>3 DEF LocalInv
<1>14. LinesInv'
  BY <1>7, LinesSame DEF SInv
<1>15. \A u \in Threads : Hand(u)' = Hand(u)
  <2>1. \A u \in Threads \ {t} : Hand(u)' = Hand(u)
    BY <1>7, <1>10, HandSame
  <2>2. Hand(t)' = Hand(t)
    BY <1>2, <1>10 DEF Hand
  <2> QED BY <2>1, <2>2
<1>16. Accounted'
  BY <1>7, <1>15, AccountedSame DEF SInv
<1> QED BY <1>1, <1>7, <1>11, <1>12, <1>13, <1>14, <1>15, <1>16 DEF SInv, Unseen

LEMMA WaitingFinite == IsFiniteSet(Waiting) /\ Cardinality(Waiting) \in Nat
<1>1. IsFiniteSet(1 .. ThreadLimit + 1)
  BY Identities, FS_Interval
<1>2. Waiting \subseteq 1 .. ThreadLimit + 1
  BY Identities DEF Waiting
<1>3. IsFiniteSet(Waiting)
  BY <1>1, <1>2, FS_Subset
<1> QED BY <1>3, FS_CardinalityType

\* The stream after one more whole chunk.
LEMMA NextChunk ==
  ASSUME NEW f \in Files, NEW k \in Nat
  PROVE  UpTo(f, UpTo(f, k * Chunk) + Chunk) = UpTo(f, (k + 1) * Chunk)
<1> DEFINE c == Chunk
           n == Len(Text(f))
           x == k * c
           y == (k + 1) * c
<1>1. c \in Nat \ {0} /\ n \in Nat
  BY TargetFacts, TextFacts
<1>2. x \in Nat /\ y = x + c
  BY <1>1, SMT
<1> HIDE DEF c, n, x, y
<1>3. UpTo(f, UpTo(f, x) + c) = UpTo(f, y)
  BY <1>1, <1>2 DEF UpTo, n
<1> QED BY <1>3 DEF x, y, c

\* What the stream passes is in the hands of the thread that read it.
LEMMA AdvanceHands ==
  ASSUME SInv, NEW t \in Threads, Advance(t)
  PROVE  /\ t \in Slots /\ open /\ pc \notin {"next", "print", "done"}
         /\ cur \in Files \ Unopenable /\ Len(Text(cur)) >= SizeLimit
         /\ streampos \in Nat /\ from[t] = streampos
         /\ got[t] \in Nat /\ streampos' = streampos + got[t] /\ streampos' <= Len(Text(cur))
         /\ BufferOf(cur, streampos, got[t], buf[t])
         /\ stage'[t] = "unlock" /\ \A u \in Threads \ {t} : stage'[u] = stage[u]
         /\ UNCHANGED <<single, todo, cur, pc, left, open, job, buf, from, out, printed>>
         /\ \A u \in Threads \ {t} : Hand(u)' = Hand(u)
         /\ Hand(t) = {}
         /\ Hand(t)' \in {Lying(cur, streampos, streampos + got[t]),
                          Lying(cur, streampos, streampos + got[t] - 1)}
         /\ \A r \in Hand(t)' : r \in Nat /\ streampos <= r /\ r < streampos'
<1>1. stage[t] = "advance" /\ stage \in [Threads -> Stages]
  BY DEF Advance, SInv, IInv, Shapes
<1>2. t \in Slots /\ open
  BY <1>1, OneReads DEF SInv, Reading
<1>3. /\ cur \in Files \ Unopenable /\ Len(Text(cur)) >= SizeLimit /\ streampos \in Nat
      /\ pc \notin {"next", "print", "done"}
      /\ from[t] = streampos /\ BufferOf(cur, streampos, got[t], buf[t])
  BY <1>1, <1>2 DEF SInv, StreamInv, LocalInv, Local
<1>4. got[t] \in Nat /\ streampos + got[t] <= Len(Text(cur))
  <2>1. got[t] \in 0 .. BufferLen(cur) /\ BufferLen(cur) \in Nat
    BY <1>3, BufferFacts, BufferLenFacts
  <2> QED BY <1>3, <2>1, BufferFacts
<1>5. /\ streampos' = streampos + got[t] /\ stage' = [stage EXCEPT ![t] = "unlock"]
      /\ UNCHANGED <<single, todo, cur, pc, left, open, job, buf, from, out, printed>>
  BY <1>3 DEF Advance, main
<1>6. stage'[t] = "unlock" /\ \A u \in Threads \ {t} : stage'[u] = stage[u]
  BY <1>1, <1>5
<1>7. Hand(t) = {} /\ Hand(t)' = {streampos + o : o \in Hits(buf[t])}
  BY <1>1, <1>3, <1>5, <1>6 DEF Hand
<1>8. \A u \in Threads \ {t} : Hand(u)' = Hand(u)
  BY <1>5, <1>6, HandSame
<1>9. /\ Hand(t)' \in {Lying(cur, streampos, streampos + got[t]),
                       Lying(cur, streampos, streampos + got[t] - 1)}
      /\ \A r \in Hand(t)' : r \in Nat /\ streampos <= r /\ r < streampos'
  BY <1>3, <1>5, <1>7, PiecePlaces
<1> QED BY <1>2, <1>3, <1>4, <1>5, <1>6, <1>7, <1>8, <1>9

LEMMA AdvanceStep ==
  ASSUME SInv, NEW t \in Threads, Advance(t)
  PROVE  SInv'
<1>1. IInv'
  BY ThreadInv DEF SInv, ThreadStep
<1>2. stage[t] = "advance" /\ stage \in [Threads -> Stages]
  BY DEF Advance, SInv, IInv, Shapes
<1>3. \A u \in Threads \ {t} : stage[u] \notin Reading
  BY <1>2, OneReads DEF SInv, Reading
<1>4. /\ t \in Slots /\ open /\ pc \notin {"next", "print", "done"}
      /\ cur \in Files \ Unopenable /\ Len(Text(cur)) >= SizeLimit
      /\ streampos \in Nat /\ from[t] = streampos
      /\ got[t] \in Nat /\ streampos' = streampos + got[t] /\ streampos' <= Len(Text(cur))
      /\ BufferOf(cur, streampos, got[t], buf[t])
      /\ stage'[t] = "unlock" /\ \A u \in Threads \ {t} : stage'[u] = stage[u]
      /\ UNCHANGED <<single, todo, cur, pc, left, open, job, buf, from, out, printed>>
  BY AdvanceHands
<1>5. /\ got \in [Threads -> 0 .. Chunk] /\ got' = [got EXCEPT ![t] = 0]
      /\ Chunk \in Nat \ {0} /\ Len(Text(cur)) \in Nat
  BY <1>4, TargetFacts, TextFacts DEF SInv, LocalShapes, Advance
<1>6. LocalShapes'
  <2>1. got' \in [Threads -> 0 .. Chunk]
    BY <1>5
  <2> QED BY <1>4, <2>1 DEF SInv, LocalShapes
<1>7. PICK k \in Nat : /\ cur \notin Late => streampos = UpTo(cur, k * Chunk)
                       /\ left = (Len(Text(cur)) - (k + Cardinality(Waiting)) * Chunk) % SizeMod
  BY <1>4 DEF SInv, StreamInv
<1>8. cur \notin Late => streampos' = UpTo(cur, (k + 1) * Chunk)
  <2> SUFFICES ASSUME cur \notin Late PROVE streampos' = UpTo(cur, (k + 1) * Chunk)
    OBVIOUS
  <2>1. streampos \in 0 .. Len(Text(cur)) /\ got[t] \in Immediate(cur, streampos, Chunk)
    BY <1>4, BufferLenFacts DEF BufferOf
  <2>2. got[t] = IF streampos + Chunk <= Len(Text(cur)) THEN Chunk ELSE Len(Text(cur)) - streampos
    BY <1>4, <1>5, <2>1, ImmediateFacts
  <2>3. streampos' = UpTo(cur, streampos + Chunk)
    BY <1>4, <1>5, <2>2 DEF UpTo
  <2> QED BY <1>4, <1>7, <2>3, NextChunk
<1>9. StreamInv'
  <2>1. Waiting' = Waiting \ {t} /\ t \in Waiting
    BY <1>2, <1>4 DEF Waiting, Threads
  <2>2. IsFiniteSet(Waiting) /\ Cardinality(Waiting) \in Nat
    BY WaitingFinite
  <2>3. Cardinality(Waiting') = Cardinality(Waiting) - 1
    BY <2>1, <2>2, FS_RemoveElement
  <2>4. (k + 1) + Cardinality(Waiting') = k + Cardinality(Waiting) /\ k + 1 \in Nat
    BY <2>2, <2>3
  <2>5. left' = (Len(Text(cur)) - ((k + 1) + Cardinality(Waiting')) * Chunk) % SizeMod
    BY <1>4, <1>7, <2>4
  <2>6. streampos' \in Nat
    BY <1>4
  <2>7. \E j \in Nat : /\ cur' \notin Late => streampos' = UpTo(cur', j * Chunk)
                       /\ left' = (Len(Text(cur')) - (j + Cardinality(Waiting')) * Chunk) % SizeMod
    BY <1>4, <1>8, <2>4, <2>5
  <2> QED BY <1>4, <2>6, <2>7 DEF SInv, StreamInv
<1>10. LocalInv'
  <2>1. \A u \in Threads : Local(u)
    BY DEF SInv, LocalInv
  <2>2. \A u \in Threads \ {t} : Local(u)'
    BY <1>3, <1>4, <1>5, <2>1, LocalSame DEF Reading
  <2>3. Local(t)'
    BY <1>4, <2>1 DEF Local
  <2> QED BY <2>2, <2>3 DEF LocalInv
<1>11. LinesInv'
  BY <1>4, LinesSame DEF SInv
<1>12. Accounted'
  <2>1. /\ \A u \in Threads \ {t} : Hand(u)' = Hand(u)
        /\ \A r \in Hand(t)' : r \in Nat /\ streampos <= r /\ r < streampos'
    BY AdvanceHands
  <2>2. \A u \in Threads : \A r \in Hand(u) : r < streampos
    BY <1>4 DEF SInv, Accounted
  <2>3. \A r \in Hand(t)' : ~(r < streampos)
    BY <1>4, <2>1
  <2>4. ASSUME NEW u \in Threads \ {t}, NEW r \in Hand(u)'
        PROVE  r < streampos' /\ r \notin Hand(t)'
    <3>1. r \in Nat /\ r < streampos
      <4>1. r \in Hand(u) /\ r < streampos
        BY <2>1, <2>2, <2>4
      <4> QED BY <4>1, HandNumbers
    <3> QED BY <1>4, <2>3, <3>1
  <2>5. \A u, v \in Threads \ {t} : \A r \in Hand(u)' : r \in Hand(v)' => u = v
    BY <2>1 DEF SInv, Accounted
  <2> QED BY <2>1, <2>4, <2>5 DEF Accounted
<1> QED BY <1>1, <1>6, <1>9, <1>10, <1>11, <1>12 DEF SInv

-----------------------------------------------------------------------------
(* A thread searches its chunk and prints what it found.                     *)

LEMMA UnlockStep ==
  ASSUME SInv, NEW t \in Threads, UnlockRead(t)
  PROVE  SInv' /\ Unseen
<1>1. IInv'
  BY ThreadInv DEF SInv, ThreadStep
<1>2. stage[t] = "unlock" /\ stage \in [Threads -> Stages]
  BY DEF UnlockRead, SInv, IInv, Shapes
<1>3. t \in Slots /\ open /\ job[t] = cur
  BY <1>2, OneReads DEF SInv, Reading
<1> DEFINE v == ProcessChunk(Terminated(buf[t]))
<1>4. /\ cur \in Files \ Unopenable /\ \E n : BufferOf(cur, from[t], n, buf[t])
      /\ buf \in [Threads -> Buffer] /\ out \in [Threads -> Seq(Match)]
  BY <1>2, <1>3 DEF SInv, StreamInv, LocalInv, Local, LocalShapes
<1>5. Found(cur, from[t], v) /\ PlacesOf(from[t], v) = {from[t] + o : o \in Hits(buf[t])}
  BY <1>4, ProcessFinds
<1>6. /\ out' = [out EXCEPT ![t] = v] /\ stage' = [stage EXCEPT ![t] = "format"]
      /\ UNCHANGED <<single, todo, cur, pc, left, open, streampos, job, buf, from, got, printed>>
  BY DEF UnlockRead, main, stream
<1> HIDE DEF v
<1>7. /\ out'[t] = v /\ stage'[t] = "format"
      /\ \A u \in Threads \ {t} : out'[u] = out[u] /\ stage'[u] = stage[u]
  BY <1>2, <1>4, <1>6
<1>8. LocalShapes'
  <2>1. v \in Seq(Match)
    BY <1>5 DEF Found
  <2> QED BY <1>4, <1>6, <2>1 DEF SInv, LocalShapes
<1>9. StreamInv'
  <2>1. Waiting' = Waiting
    BY <1>2, <1>7 DEF Waiting, Threads
  <2> QED BY <1>6, <2>1 DEF SInv, StreamInv
<1>10. LocalInv'
  <2>1. \A u \in Threads : Local(u)
    BY DEF SInv, LocalInv
  <2>2. \A u \in Threads \ {t} : Local(u)'
    BY <1>6, <1>7, <2>1, LocalSame
  <2>3. Local(t)'
    BY <1>3, <1>4, <1>5, <1>6, <1>7, <2>1 DEF Local
  <2> QED BY <2>2, <2>3 DEF LocalInv
<1>11. LinesInv'
  BY <1>6, LinesSame DEF SInv
<1>12. \A u \in Threads : Hand(u)' = Hand(u)
  <2>1. \A u \in Threads \ {t} : Hand(u)' = Hand(u)
    BY <1>6, <1>7, HandSame
  <2>2. Hand(t)' = Hand(t)
    BY <1>2, <1>5, <1>6, <1>7 DEF Hand
  <2> QED BY <2>1, <2>2
<1>13. Accounted'
  BY <1>6, <1>12, AccountedSame DEF SInv
<1> QED BY <1>1, <1>6, <1>8, <1>9, <1>10, <1>11, <1>12, <1>13 DEF SInv, Unseen

LEMMA UnlockFormatStep ==
  ASSUME SInv, NEW t \in Threads, UnlockFormat(t)
  PROVE  SInv' /\ Unseen
<1>1. IInv'
  BY ThreadInv DEF SInv, ThreadStep
<1>2. stage[t] = "print" /\ out[t] = <<>> /\ stage \in [Threads -> Stages]
  BY DEF UnlockFormat, SInv, IInv, Shapes
<1>3. buf \in [Threads -> Buffer] /\ from \in [Threads -> Nat]
  BY DEF SInv, LocalShapes
<1>4. /\ buf' = [buf EXCEPT ![t] = <<>>] /\ from' = [from EXCEPT ![t] = 0]
      /\ stage' = [stage EXCEPT ![t] = "exit"]
      /\ UNCHANGED <<single, todo, cur, pc, left, open, streampos, job, got, out, printed>>
  BY DEF UnlockFormat, main, stream
<1>5. /\ buf'[t] = <<>> /\ from'[t] = 0 /\ stage'[t] = "exit"
      /\ \A u \in Threads \ {t} : buf'[u] = buf[u] /\ from'[u] = from[u] /\ stage'[u] = stage[u]
  BY <1>2, <1>3, <1>4
<1>6. <<>> \in Buffer /\ Len(<<>>) = 0
  BY EmptySeq DEF Buffer
<1>7. LocalShapes'
  BY <1>3, <1>4, <1>6 DEF SInv, LocalShapes
<1>8. StreamInv'
  <2>1. Waiting' = Waiting
    BY <1>2, <1>5 DEF Waiting, Threads
  <2> QED BY <1>4, <2>1 DEF SInv, StreamInv
<1>9. LocalInv'
  <2>1. \A u \in Threads : Local(u)
    BY DEF SInv, LocalInv
  <2>2. \A u \in Threads \ {t} : Local(u)'
    BY <1>4, <1>5, <2>1, LocalSame
  <2>3. Local(t)'
    BY <1>5, <1>6 DEF Local
  <2> QED BY <2>2, <2>3 DEF LocalInv
<1>10. LinesInv'
  BY <1>4, LinesSame DEF SInv
<1>11. \A u \in Threads : Hand(u)' = Hand(u)
  <2>1. \A u \in Threads \ {t} : Hand(u)' = Hand(u)
    BY <1>4, <1>5, HandSame
  <2>2. Hand(t)' = Hand(t)
    BY <1>2, <1>5, FoundNothing DEF Hand
  <2> QED BY <2>1, <2>2
<1>12. Accounted'
  BY <1>4, <1>11, AccountedSame DEF SInv
<1> QED BY <1>1, <1>4, <1>7, <1>8, <1>9, <1>10, <1>11, <1>12 DEF SInv, Unseen

\* The first match, and the others.
LEMMA FirstMatch ==
  ASSUME NEW f, NEW p \in Nat, NEW v, Found(f, p, v), v # <<>>
  PROVE  LET m == Head(v)
             r == p + m.offset
         IN  /\ m \in Match /\ TrueMatch(f, p, m)
             /\ Found(f, p, Tail(v)) /\ r \in PlacesOf(p, v)
             /\ \A x : x \in PlacesOf(p, Tail(v)) <=> x \in PlacesOf(p, v) /\ x # r
<1> DEFINE n == Len(v)
           w == Tail(v)
<1>1. v \in Seq(Match) /\ n \in Nat \ {0} /\ DOMAIN v = 1 .. n /\ \A i \in 1 .. n : v[i] \in Match
  BY EmptySeq, LenProperties, ElementOfSeq DEF Found
<1>2. /\ w \in Seq(Match) /\ Len(w) = n - 1 /\ DOMAIN w = 1 .. n - 1
      /\ \A i \in 1 .. n - 1 : w[i] = v[i + 1]
  <2>1. /\ w \in Seq(Match) /\ Len(w) = n - 1 /\ \A i \in 1 .. Len(w) : w[i] = v[i + 1]
    BY <1>1, HeadTailProperties
  <2> HIDE DEF w, n
  <2>2. DOMAIN w = 1 .. n - 1
    BY <2>1, LenProperties
  <2> QED BY <2>1, <2>2
<1>3. Head(v) = v[1] /\ 1 \in 1 .. n
  BY <1>1
<1> HIDE DEF n, w
<1>4. /\ \A i, j \in 1 .. n : v[i].offset = v[j].offset => i = j
      /\ \A i \in 1 .. n : TrueMatch(f, p, v[i])
      /\ \A i \in 1 .. n : v[i].offset \in Nat
  BY <1>1 DEF Found, Match
<1>5. \A i \in 1 .. n - 1 : i + 1 \in 1 .. n /\ i + 1 # 1
  BY <1>1
<1>6. Found(f, p, w)
  <2>1. ASSUME NEW i \in 1 .. n - 1, NEW j \in 1 .. n - 1, w[i].offset = w[j].offset
        PROVE  i = j
    <3>1. i + 1 = j + 1
      <4>1. w[i] = v[i + 1] /\ w[j] = v[j + 1]
        BY <1>2
      <4>2. i + 1 \in 1 .. n /\ j + 1 \in 1 .. n
        BY <1>5
      <4>3. v[i + 1].offset = v[j + 1].offset
        BY <2>1, <4>1
      <4>4. \A y, z \in 1 .. n : v[y].offset = v[z].offset => y = z
        BY <1>4
      <4> QED BY <4>2, <4>3, <4>4
    <3> QED BY <3>1
  <2>2. ASSUME NEW i \in 1 .. n - 1
        PROVE  TrueMatch(f, p, w[i])
    <3>1. w[i] = v[i + 1] /\ i + 1 \in 1 .. n
      BY <1>2, <1>5
    <3> QED BY <1>4, <3>1
  <2> QED BY <1>2, <2>1, <2>2 DEF Found
<1>7. p + v[1].offset \in PlacesOf(p, v)
  BY <1>1, <1>3 DEF PlacesOf
<1>8. ASSUME NEW x
      PROVE  x \in PlacesOf(p, w) <=> x \in PlacesOf(p, v) /\ x # p + v[1].offset
  <2>1. ASSUME NEW i \in 1 .. n - 1, x = p + w[i].offset
        PROVE  x \in PlacesOf(p, v) /\ x # p + v[1].offset
    <3>1. w[i] = v[i + 1] /\ i + 1 \in 1 .. n /\ i + 1 # 1
      BY <1>2, <1>5
    <3>2. v[i + 1].offset # v[1].offset /\ v[i + 1].offset \in Nat /\ v[1].offset \in Nat
      BY <1>3, <1>4, <3>1
    <3>3. x = p + v[i + 1].offset
      BY <2>1, <3>1
    <3>4. x \in PlacesOf(p, v)
      BY <1>1, <3>1, <3>3 DEF PlacesOf
    <3>5. x # p + v[1].offset
      BY <3>2, <3>3
    <3> QED BY <3>4, <3>5
  <2>2. ASSUME NEW i \in 1 .. n, x = p + v[i].offset, x # p + v[1].offset
        PROVE  x \in PlacesOf(p, w)
    <3>1. i # 1
      BY <2>2
    <3>2. i - 1 \in 1 .. n - 1 /\ (i - 1) + 1 = i
      BY <1>1, <3>1
    <3>3. w[i - 1] = v[i]
      BY <1>2, <3>2
    <3> QED BY <1>2, <2>2, <3>2, <3>3 DEF PlacesOf
  <2>3. x \in PlacesOf(p, w) <=> \E i \in 1 .. n - 1 : x = p + w[i].offset
    BY <1>2 DEF PlacesOf
  <2>4. x \in PlacesOf(p, v) <=> \E i \in 1 .. n : x = p + v[i].offset
    BY <1>1 DEF PlacesOf
  <2> QED BY <2>1, <2>2, <2>3, <2>4
<1> QED BY <1>1, <1>3, <1>4, <1>6, <1>7, <1>8 DEF w

\* One more line.
LEMMA AppendOne ==
  ASSUME NEW S, NEW s \in Seq(S), NEW e
  PROVE  LET n == Len(s)
             w == Append(s, e)
         IN  /\ n \in Nat /\ DOMAIN s = 1 .. n /\ DOMAIN w = 1 .. n + 1
             /\ \A i \in 1 .. n : w[i] = s[i]
             /\ w[n + 1] = e /\ w \in Seq(S \cup {e}) /\ Len(w) = n + 1
<1> DEFINE n == Len(s)
           w == Append(s, e)
<1>1. s \in Seq(S \cup {e}) /\ e \in S \cup {e}
  BY SeqMonotonic
<1>2. n \in Nat /\ DOMAIN s = 1 .. n
  BY LenProperties
<1>3. w \in Seq(S \cup {e}) /\ Len(w) = n + 1 /\ \A i \in 1 .. n + 1 : w[i] = IF i <= n THEN s[i] ELSE e
  BY <1>1, <1>2
<1>4. DOMAIN w = 1 .. n + 1
  BY <1>3, LenProperties
<1> HIDE DEF n, w
<1>5. /\ \A i \in 1 .. n : i \in 1 .. n + 1 /\ i <= n
      /\ n + 1 \in 1 .. n + 1 /\ ~(n + 1 <= n)
  BY <1>2
<1> QED BY <1>2, <1>3, <1>4, <1>5 DEF n, w

\* What PrintLine prints: the first of the thread's matches, about the current file.
LEMMA PrintsTrue ==
  ASSUME SInv, NEW t \in Threads, PrintLine(t)
  PROVE  \E e, S : /\ printed \in Seq(S) /\ printed' = Append(printed, e)
                   /\ TrueLine(e) /\ e.file = cur /\ cur \in Files
                   /\ e.place = from[t] + Head(out[t]).offset /\ e.by = t
<1> DEFINE m == Head(out[t])
           r == from[t] + m.offset
           e == [file |-> job[t], offset |-> m.offset, prefix |-> FormatString(m.prefix),
                 suffix |-> FormatString(m.suffix), place |-> from[t] + m.offset, by |-> t]
<1>1. printed' = Append(printed, e) /\ stage[t] = "print" /\ out[t] # <<>>
  BY DEF PrintLine
<1>2. cur \in Files /\ job[t] = cur /\ Found(cur, from[t], out[t]) /\ from[t] \in Nat
  BY <1>1 DEF SInv, LocalInv, Local, LocalShapes
<1>3. m \in Match /\ TrueMatch(cur, from[t], m)
  <2> DEFINE v == out[t]
             p == from[t]
  <2>1. p \in Nat /\ Found(cur, p, v) /\ v # <<>>
    BY <1>1, <1>2
  <2> HIDE DEF v, p
  <2>2. Head(v) \in Match /\ TrueMatch(cur, p, Head(v))
    BY <2>1, FirstMatch, ZenonT(100)
  <2> QED BY <2>2 DEF v, p
<1>4. /\ e.file = cur /\ e.offset = m.offset /\ e.place = r /\ e.by = t
      /\ e.prefix = FormatString(m.prefix) /\ e.suffix = FormatString(m.suffix)
  BY <1>2
<1>5. m.prefix \in Buffer /\ m.suffix \in Buffer
  BY <1>3 DEF Match
<1>6. Prefixed(cur, m.offset, r, m.prefix) /\ Suffixed(cur, m.offset, r, m.suffix)
  BY <1>3 DEF TrueMatch
<1> HIDE DEF m, r, e
<1>7. TrueLine(e)
  BY <1>2, <1>4, <1>5, <1>6 DEF TrueLine
<1>8. PICK S : printed \in Seq(S)
  BY DEF SInv, LinesInv, Listed
<1> QED BY <1>1, <1>2, <1>4, <1>7, <1>8 DEF r, m

\* It is a place the thread held, and holds no more.
LEMMA PrintHands ==
  ASSUME SInv, NEW t \in Threads, PrintLine(t)
  PROVE  \E e, S : /\ printed \in Seq(S) /\ printed' = Append(printed, e)
                   /\ TrueLine(e) /\ e.file = cur /\ cur \in Files /\ e.by = t
                   /\ e.place \in Hand(t) /\ Hand(t)' = Hand(t) \ {e.place}
                   /\ \A u \in Threads \ {t} : Hand(u)' = Hand(u)
                   /\ Found(cur, from[t], Tail(out[t])) /\ out'[t] = Tail(out[t])
                   /\ \A u \in Threads \ {t} : out'[u] = out[u]
<1>1. /\ stage[t] = "print" /\ out[t] # <<>> /\ out' = [out EXCEPT ![t] = Tail(out[t])]
      /\ UNCHANGED <<stage, buf, from>>
  BY DEF PrintLine
<1>2. PICK e, S : /\ printed \in Seq(S) /\ printed' = Append(printed, e)
                  /\ TrueLine(e) /\ e.file = cur /\ cur \in Files
                  /\ e.place = from[t] + Head(out[t]).offset /\ e.by = t
  BY PrintsTrue
<1>3. out \in [Threads -> Seq(Match)] /\ from[t] \in Nat /\ Found(cur, from[t], out[t])
  BY <1>1 DEF SInv, LocalShapes, LocalInv, Local
<1>4. /\ Found(cur, from[t], Tail(out[t])) /\ e.place \in PlacesOf(from[t], out[t])
      /\ PlacesOf(from[t], Tail(out[t])) = PlacesOf(from[t], out[t]) \ {e.place}
  <2> DEFINE v == out[t]
             p == from[t]
  <2>1. p \in Nat /\ Found(cur, p, v) /\ v # <<>>
    BY <1>1, <1>3
  <2>2. e.place = p + Head(v).offset
    BY <1>2
  <2> HIDE DEF v, p
  <2>3. /\ Found(cur, p, Tail(v)) /\ p + Head(v).offset \in PlacesOf(p, v)
        /\ \A x : x \in PlacesOf(p, Tail(v)) <=> x \in PlacesOf(p, v) /\ x # p + Head(v).offset
    BY <2>1, FirstMatch, Zenon
  <2>4. PlacesOf(p, Tail(v)) = PlacesOf(p, v) \ {e.place}
    BY <2>2, <2>3
  <2> QED BY <2>2, <2>3, <2>4 DEF v, p
<1>5. out'[t] = Tail(out[t]) /\ \A u \in Threads \ {t} : out'[u] = out[u]
  BY <1>1, <1>3
<1>6. Hand(t) = PlacesOf(from[t], out[t]) /\ Hand(t)' = PlacesOf(from[t], Tail(out[t]))
  BY <1>1, <1>5 DEF Hand
<1>7. \A u \in Threads \ {t} : Hand(u)' = Hand(u)
  BY <1>1, <1>5, HandSame
<1> QED BY <1>2, <1>4, <1>5, <1>6, <1>7

LEMMA PrintStep ==
  ASSUME SInv, NEW t \in Threads, PrintLine(t)
  PROVE  SInv'
<1>1. IInv'
  BY ThreadInv DEF SInv, ThreadStep
<1>2. /\ stage[t] = "print" /\ out' = [out EXCEPT ![t] = Tail(out[t])]
      /\ UNCHANGED <<single, todo, cur, pc, left, open, streampos, stage, job, buf, from, got>>
  BY DEF PrintLine, main, stream
<1>3. PICK e, S : /\ printed \in Seq(S) /\ printed' = Append(printed, e) /\ TrueLine(e)
                  /\ Hand(t)' = Hand(t) \ {e.place}
                  /\ \A u \in Threads \ {t} : Hand(u)' = Hand(u)
                  /\ Found(cur, from[t], Tail(out[t])) /\ out'[t] = Tail(out[t])
                  /\ \A u \in Threads \ {t} : out'[u] = out[u]
  BY PrintHands
<1>4. out \in [Threads -> Seq(Match)] /\ job[t] = cur /\ cur \in Files
  BY <1>2 DEF SInv, LocalShapes, LocalInv, Local
<1>5. LocalShapes'
  <2>1. Tail(out[t]) \in Seq(Match)
    BY <1>3 DEF Found
  <2> QED BY <1>2, <1>4, <2>1 DEF SInv, LocalShapes
<1>6. StreamInv'
  <2>1. Waiting' = Waiting
    BY <1>2 DEF Waiting
  <2> QED BY <1>2, <2>1 DEF SInv, StreamInv
<1>7. LocalInv'
  <2>1. \A u \in Threads : Local(u)
    BY DEF SInv, LocalInv
  <2>2. \A u \in Threads \ {t} : Local(u)'
    BY <1>2, <1>3, <2>1, LocalSame
  <2>3. Local(t)'
    BY <1>2, <1>3, <1>4, <2>1 DEF Local
  <2> QED BY <2>2, <2>3 DEF LocalInv
<1> DEFINE n == Len(printed)
<1>8. /\ n \in Nat /\ DOMAIN printed = 1 .. n /\ DOMAIN printed' = 1 .. n + 1
      /\ \A i \in 1 .. n : printed'[i] = printed[i]
      /\ printed'[n + 1] = e /\ printed' \in Seq(S \cup {e})
  BY <1>3, AppendOne
<1> HIDE DEF n
<1>9. LinesInv'
  <2>1. Listed'
    BY <1>8 DEF Listed
  <2>2. ASSUME NEW i \in 1 .. n + 1
        PROVE  TrueLine(printed'[i])
    <3>1. i = n + 1 \/ i \in 1 .. n
      BY <1>8
    <3> QED BY <1>3, <1>8, <3>1 DEF SInv, LinesInv
  <2>3. \A i \in DOMAIN printed' : TrueLine(printed[i])'
    BY <1>8, <2>2 DEF TrueLine
  <2> QED BY <2>1, <2>3 DEF LinesInv
<1>10. Accounted'
  <2>1. \A u \in Threads : Hand(u)' \subseteq Hand(u)
    BY <1>3
  <2> QED BY <1>2, <2>1 DEF SInv, Accounted
<1> QED BY <1>1, <1>5, <1>6, <1>7, <1>9, <1>10 DEF SInv

-----------------------------------------------------------------------------
(* The main thread.                                                          *)

\* left_so_far - CHUNK_SIZE is never less than 0, so every thread gets a whole chunk.
LEMMA WholeChunks ==
  ASSUME left \in 0 .. SizeMod - 1
  PROVE  ChunkWanted(left) = Chunk /\ Minus(left, Chunk) \in 0 .. SizeMod - 1
<1>1. SizeMod \in Nat \ {0} /\ Chunk \in Nat \ {0}
  BY SearchAssumption
<1>2. left - Chunk \in Int
  BY <1>1
<1>3. Minus(left, Chunk) \in 0 .. SizeMod - 1
  BY <1>1, <1>2, SMT DEF Minus
<1>4. ~(Minus(left, Chunk) < 0)
  BY <1>1, <1>3
<1> QED BY <1>3, <1>4 DEF ChunkWanted

LEMMA SpawnKeeps ==
  ASSUME SInv, Spawn
  PROVE  SInv' /\ Unseen
<1> USE Identities
<1> DEFINE z == [i \in 1 .. Chunk |-> Nul]
<1>1. IInv'
  BY SpawnStep DEF SInv
<1>2. /\ stage \in [Threads -> Stages] /\ job \in [Threads -> Files \cup {NoFile}]
      /\ spawned \in Nat /\ joined = 0 /\ open /\ spawned <= ThreadLimit /\ pc = "loop"
  BY DEF Spawn, SInv, IInv, Shapes, PoolInv
<1>3. /\ buf \in [Threads -> Buffer] /\ left \in 0 .. SizeMod - 1
  BY DEF SInv, LocalShapes, StreamInv
<1>4. PICK new \in Slots : new = spawned + 1 /\ new \in Threads /\ new # Main
  BY <1>2 DEF Main
<1>5. stage[new] = "idle"
  <2>1. ~(new <= spawned)
    BY <1>2, <1>4
  <2> QED BY <1>4, <2>1 DEF SInv, IInv, PoolInv
<1>6. ChunkWanted(left) = Chunk /\ Minus(left, Chunk) \in 0 .. SizeMod - 1
  BY <1>3, WholeChunks
<1>7. /\ stage' = [stage EXCEPT ![new] = "lock"] /\ job' = [job EXCEPT ![new] = cur]
      /\ buf' = [buf EXCEPT ![new] = z] /\ left' = Minus(left, Chunk)
      /\ pc' \in {"loop", "joinbatch"}
      /\ UNCHANGED <<single, todo, cur, open, streampos, from, got, out, printed>>
  BY <1>4, <1>6 DEF Spawn, stream
<1>8. z \in Buffer /\ Len(z) = Chunk
  <2>1. Chunk \in Nat /\ z \in [1 .. Chunk -> Char]
    BY TargetFacts, Chars
  <2> HIDE DEF z
  <2> QED BY <2>1, FunctionIsSeq DEF Buffer
<1> HIDE DEF z
<1>9. /\ stage'[new] = "lock" /\ job'[new] = cur /\ buf'[new] = z
      /\ \A u \in Threads \ {new} : stage'[u] = stage[u] /\ job'[u] = job[u] /\ buf'[u] = buf[u]
  BY <1>2, <1>3, <1>4, <1>7
<1>10. LocalShapes'
  BY <1>3, <1>4, <1>7, <1>8 DEF SInv, LocalShapes
<1>11. LocalInv'
  <2>1. \A u \in Threads : Local(u)
    BY DEF SInv, LocalInv
  <2>2. \A u \in Threads \ {new} : Local(u)'
    BY <1>7, <1>9, <2>1, LocalSame
  <2>3. Local(new)'
    BY <1>4, <1>8, <1>9 DEF Local
  <2> QED BY <2>2, <2>3 DEF LocalInv
<1>12. StreamInv'
  <2>1. PICK k \in Nat : /\ cur \notin Late => streampos = UpTo(cur, k * Chunk)
                         /\ left = (Len(Text(cur)) - (k + Cardinality(Waiting)) * Chunk) % SizeMod
    BY <1>2 DEF SInv, StreamInv
  <2>2. Waiting' = Waiting \cup {new} /\ new \notin Waiting
    BY <1>4, <1>5, <1>9 DEF Waiting, Threads
  <2>3. IsFiniteSet(Waiting) /\ Cardinality(Waiting) \in Nat
    BY WaitingFinite
  <2>4. Cardinality(Waiting') = Cardinality(Waiting) + 1
    BY <2>2, <2>3, FS_AddElement
  <2> DEFINE w == Cardinality(Waiting)
             n == Len(Text(cur))
  <2>5. cur \in Files \ Unopenable /\ n >= SizeLimit /\ streampos \in Nat /\ streampos <= n
    BY <1>2 DEF SInv, StreamInv
  <2>6. n \in Nat /\ SizeMod \in Nat \ {0} /\ Chunk \in Nat \ {0}
    BY <2>5, TextFacts, TargetFacts
  <2> HIDE DEF w, n
  <2>7. w \in Nat /\ Cardinality(Waiting') = w + 1 /\ left = (n - (k + w) * Chunk) % SizeMod
    BY <2>1, <2>3, <2>4 DEF w, n
  <2>8. left' = (n - (k + (w + 1)) * Chunk) % SizeMod
    <3> DEFINE x == n - (k + w) * Chunk
    <3>1. x \in Int
      BY <2>6, <2>7, SMT
    <3>2. n - (k + (w + 1)) * Chunk = x - Chunk
      BY <2>6, <2>7, SMT
    <3>3. left' = ((x % SizeMod) - Chunk) % SizeMod
      BY <1>7, <2>7 DEF Minus
    <3> HIDE DEF x
    <3>4. Chunk \in Int
      BY <2>6
    <3>5. ((x % SizeMod) - Chunk) % SizeMod = (x - Chunk) % SizeMod
      BY <2>6, <3>1, <3>4, WrapOnce
    <3> QED BY <3>2, <3>3, <3>5
  <2>9. \E j \in Nat : /\ cur' \notin Late => streampos' = UpTo(cur', j * Chunk)
                       /\ left' = (Len(Text(cur')) - (j + Cardinality(Waiting')) * Chunk) % SizeMod
    BY <1>7, <2>1, <2>7, <2>8 DEF n
  <2> QED BY <1>6, <1>7, <2>5, <2>9 DEF StreamInv, n
<1>13. LinesInv'
  BY <1>7, LinesSame DEF SInv
<1>14. \A u \in Threads : Hand(u)' = Hand(u)
  <2>1. \A u \in Threads \ {new} : Hand(u)' = Hand(u)
    BY <1>7, <1>9, HandSame
  <2>2. Hand(new)' = Hand(new)
    BY <1>5, <1>9 DEF Hand
  <2> QED BY <2>1, <2>2
<1>15. Accounted'
  BY <1>7, <1>14, AccountedSame DEF SInv
<1> QED BY <1>1, <1>7, <1>10, <1>11, <1>12, <1>13, <1>14, <1>15 DEF SInv, Unseen

\* When all threads are idle, all that is in hand is what the main thread gives to
\* format_output.
LEMMA OutputHands ==
  ASSUME SInv, \A t \in Threads : stage[t] = "idle", NEW f \in Files, NEW v,
         Output(f, v), Found(f, 0, v), UNCHANGED from
  PROVE  /\ \A t \in Threads \ {Main} : stage'[t] = "idle" /\ Hand(t)' = {}
         /\ out' \in [Threads -> Seq(Match)] /\ pc' \in {"next", "print"}
         /\ Hand(Main)' = PlacesOf(0, v) /\ from[Main] = 0
         /\ \/ v = <<>> /\ stage'[Main] = "idle"
            \/ stage'[Main] = "format" /\ out'[Main] = v /\ job'[Main] = f
<1> USE Identities
<1>1. /\ stage \in [Threads -> Stages] /\ job \in [Threads -> Files \cup {NoFile}]
      /\ out \in [Threads -> Seq(Match)] /\ v \in Seq(Match)
  BY DEF SInv, IInv, Shapes, LocalShapes, Found
<1>2. /\ \A t \in Threads \ {Main} : stage'[t] = "idle"
      /\ out' \in [Threads -> Seq(Match)] /\ pc' \in {"next", "print"}
      /\ \/ v = <<>> /\ stage'[Main] = "idle"
         \/ stage'[Main] = "format" /\ out'[Main] = v /\ job'[Main] = f
  BY <1>1, ZenonT(100) DEF Output
<1>3. from[Main] = 0
  BY DEF SInv, LocalInv, Local
<1>4. \A t \in Threads \ {Main} : Hand(t)' = {}
  BY <1>2 DEF Hand
<1>5. Hand(Main)' = PlacesOf(0, v)
  <2>1. CASE v = <<>> /\ stage'[Main] = "idle"
    BY <2>1, FoundNothing DEF Hand
  <2>2. CASE stage'[Main] = "format" /\ out'[Main] = v
    BY <1>3, <2>2 DEF Hand
  <2> QED BY <1>2, <2>1, <2>2
<1> QED BY <1>2, <1>3, <1>4, <1>5

LEMMA OutputKeeps ==
  ASSUME SInv, IInv', \A t \in Threads : stage[t] = "idle",
         NEW f \in Files, NEW v, Output(f, v), Found(f, 0, v), cur' = f,
         ~open', left' \in 0 .. SizeMod - 1, streampos' \in Nat,
         f \notin Unopenable \cup Late /\ Len(Text(f)) >= SizeLimit => streampos' = Len(Text(f)),
         UNCHANGED <<single, buf, from, got, printed>>
  PROVE  SInv'
<1> USE Identities
<1>1. /\ \A t \in Threads \ {Main} : stage'[t] = "idle" /\ Hand(t)' = {}
      /\ out' \in [Threads -> Seq(Match)] /\ pc' \in {"next", "print"} /\ from[Main] = 0
      /\ \/ v = <<>> /\ stage'[Main] = "idle"
         \/ stage'[Main] = "format" /\ out'[Main] = v /\ job'[Main] = f
  BY OutputHands
<1>2. StreamInv'
  BY <1>1 DEF StreamInv
<1>3. LocalShapes'
  BY <1>1 DEF SInv, LocalShapes
<1>4. \A t \in Threads : Len(buf[t]) \in {0, Chunk}
  BY DEF SInv, LocalInv, Local
<1>5. LocalInv'
  BY <1>1, <1>4 DEF LocalInv, Local
<1>6. LinesInv'
  BY LinesSame DEF SInv
<1>7. Accounted'
  BY <1>1 DEF Accounted
<1> QED BY <1>2, <1>3, <1>5, <1>6, <1>7 DEF SInv

\* A small file's occurrences but for one that ends with its last byte are in the main
\* thread's hands at once, a large file's none yet.
LEMMA VisitHands ==
  ASSUME SInv, NEW f \in Files, SmallFile(f) \/ LargeFile(f)
  PROVE  /\ pc = "next" /\ f \in todo /\ todo' = todo \ {f} /\ cur' = f
         /\ pc' \in {"next", "print", "loop"} /\ UNCHANGED <<single, buf, from, got, printed>>
         /\ \A t \in Threads : stage[t] = "idle"
         /\ ~open /\ left \in 0 .. SizeMod - 1 /\ streampos \in Nat
         /\ \/ /\ ~open' /\ UNCHANGED <<left, streampos>>
               /\ \E v : Output(f, v) /\ Found(f, 0, v)
               /\ f \notin Unopenable => Len(Text(f)) < SizeLimit
            \/ /\ f \notin Unopenable /\ Len(Text(f)) >= SizeLimit /\ pc' = "loop"
               /\ left' = Len(Text(f)) /\ open' = TRUE /\ streampos' = 0
               /\ UNCHANGED <<stage, job, out>>
         /\ LET n == LookedAt'
            IN  /\ n = IF f \notin Unopenable /\ Len(Text(f)) < SizeLimit THEN Len(Text(f)) ELSE 0
                /\ UNION {Hand(t)' : t \in Threads} \in
                     IF f \in Unopenable THEN {{}} ELSE {Lying(f, 0, n), Lying(f, 0, n - 1)}
<1> USE Identities
<1> DEFINE all == UNION {Hand(t)' : t \in Threads}
           x == Text(f)
<1>1. /\ pc = "next" /\ f \in todo /\ todo' = todo \ {f} /\ cur' = f
      /\ pc' \in {"next", "print", "loop"} /\ UNCHANGED <<single, buf, from, got, printed>>
  BY DEF SmallFile, LargeFile, Visit, Output
<1>2. \A t \in Threads : stage[t] = "idle"
  BY <1>1, Quiet DEF SInv, Threads
<1>3. ~open /\ left \in 0 .. SizeMod - 1 /\ streampos \in Nat
  BY <1>1 DEF SInv, StreamInv
<1>4. Len(x) \in Nat /\ SizeLimit \in Nat /\ f # NoFile
  BY TextFacts, SearchAssumption
<1>5. LookedAt' = IF f \in Unopenable THEN 0 ELSE IF Len(x) < SizeLimit THEN Len(x) ELSE streampos'
  BY <1>1, <1>4 DEF LookedAt
<1>6. ASSUME NEW v, Output(f, v), Found(f, 0, v)
      PROVE  all = PlacesOf(0, v)
  <2>1. Hand(Main)' = PlacesOf(0, v) /\ \A t \in Threads \ {Main} : Hand(t)' = {}
    BY <1>1, <1>2, <1>6, OutputHands
  <2> QED BY <2>1
<1>7. CASE f \in Unopenable
  <2>1. Output(f, <<>>) /\ UNCHANGED <<open, left, streampos>>
    BY <1>7 DEF SmallFile, LargeFile, stream
  <2>2. Found(f, 0, <<>>) /\ PlacesOf(0, <<>>) = {}
    BY FoundNothing
  <2>3. all = {} /\ LookedAt' = 0
    BY <1>5, <1>6, <1>7, <2>1, <2>2
  <2> HIDE DEF all
  <2>4. \E v : Output(f, v) /\ Found(f, 0, v)
    BY <2>1, <2>2
  <2> QED BY <1>1, <1>2, <1>3, <1>7, <2>1, <2>3, <2>4 DEF all
<1>8. CASE f \notin Unopenable /\ Len(x) < SizeLimit
  <2> DEFINE v == ProcessChunk(Terminated(x))
             n == Len(x)
  <2>1. Output(f, v) /\ UNCHANGED <<open, left, streampos>>
    BY <1>4, <1>8 DEF SmallFile, LargeFile, stream
  <2>2. BufferOf(f, 0, n, x)
    BY <1>8, SmallBuffer
  <2>3. Found(f, 0, v) /\ PlacesOf(0, v) = {0 + o : o \in Hits(x)}
    BY <2>2, ProcessFinds
  <2>4. {0 + o : o \in Hits(x)} \in {Lying(f, 0, 0 + n), Lying(f, 0, 0 + n - 1)}
    BY <2>2, PiecePlaces
  <2>5. 0 + n = n /\ 0 + n - 1 = n - 1
    BY <1>4
  <2> HIDE DEF v
  <2>6. all = PlacesOf(0, v)
    BY <1>6, <2>1, <2>3
  <2>7. LookedAt' = n
    BY <1>5, <1>8
  <2>8. \E w : Output(f, w) /\ Found(f, 0, w)
    BY <2>1, <2>3
  <2> HIDE DEF all, n
  <2>9. all \in {Lying(f, 0, n), Lying(f, 0, n - 1)}
    BY <2>3, <2>4, <2>5, <2>6, Zenon
  <2> QED BY <1>1, <1>2, <1>3, <1>8, <2>1, <2>7, <2>8, <2>9 DEF all, n
<1>9. CASE f \notin Unopenable /\ ~(Len(x) < SizeLimit)
  <2>1. /\ Len(x) >= SizeLimit /\ pc' = "loop" /\ left' = Len(x) /\ open' = TRUE
        /\ streampos' = 0 /\ UNCHANGED <<stage, job, out>>
    BY <1>9 DEF SmallFile, LargeFile
  <2>2. all = {}
    BY <1>2, <2>1 DEF Hand
  <2>3. Lying(f, 0, 0) = {}
    <3>1. \A q \in Places(x) : q \in Nat
      BY PlacesOfText
    <3>2. Len(Target) \in Nat \ {0}
      BY TargetFacts
    <3> QED BY <3>1, <3>2 DEF Lying
  <2>4. LookedAt' = 0
    BY <1>5, <1>9, <2>1
  <2> HIDE DEF all
  <2> QED BY <1>1, <1>2, <1>3, <1>9, <2>1, <2>2, <2>3, <2>4 DEF all
<1> QED BY <1>7, <1>8, <1>9

LEMMA VisitKeeps ==
  ASSUME SInv, NEW f \in Files, SmallFile(f) \/ LargeFile(f)
  PROVE  SInv'
<1> USE Identities
<1>1. IInv'
  BY VisitStep DEF SInv
<1>2. /\ cur' = f /\ UNCHANGED <<single, buf, from, got, printed>>
      /\ \A t \in Threads : stage[t] = "idle"
      /\ left \in 0 .. SizeMod - 1 /\ streampos \in Nat
  BY VisitHands
<1>3. Len(Text(f)) \in 0 .. SizeMod - 1 /\ SizeMod \in Nat \ {0} /\ SizeLimit \in Nat
  BY TextFacts, SearchAssumption
<1>4. CASE /\ ~open' /\ UNCHANGED <<left, streampos>>
           /\ \E v : Output(f, v) /\ Found(f, 0, v)
           /\ f \notin Unopenable => Len(Text(f)) < SizeLimit
  <2>1. PICK v : Output(f, v) /\ Found(f, 0, v)
    BY <1>4
  <2>2. f \notin Unopenable \cup Late /\ Len(Text(f)) >= SizeLimit => streampos' = Len(Text(f))
    BY <1>3, <1>4
  <2> QED BY <1>1, <1>2, <1>4, <2>1, <2>2, OutputKeeps
<1>5. CASE /\ f \notin Unopenable /\ Len(Text(f)) >= SizeLimit /\ pc' = "loop"
           /\ left' = Len(Text(f)) /\ open' = TRUE /\ streampos' = 0
           /\ UNCHANGED <<stage, job, out>>
  <2>1. LocalShapes'
    BY <1>2, <1>5 DEF SInv, LocalShapes
  <2>2. LocalInv'
    <3>1. \A t \in Threads : Local(t)
      BY DEF SInv, LocalInv
    <3>2. \A t \in Threads : Local(t)'
      BY <1>2, <1>5, <3>1 DEF Local
    <3> QED BY <3>2 DEF LocalInv
  <2>3. StreamInv'
    <3>1. Waiting' = {}
      BY <1>2, <1>5 DEF Waiting, Threads
    <3>2. Cardinality(Waiting') = 0
      BY <3>1, FS_EmptySet
    <3>3. Chunk \in Nat /\ 0 * Chunk = 0 /\ (0 + 0) * Chunk = 0
      BY TargetFacts, SMT
    <3>4. UpTo(f, 0 * Chunk) = 0
      BY <1>3, <3>3 DEF UpTo
    <3>5. (Len(Text(f)) - (0 + Cardinality(Waiting')) * Chunk) % SizeMod = Len(Text(f))
      <4>1. Len(Text(f)) - (0 + Cardinality(Waiting')) * Chunk = 0 * SizeMod + Len(Text(f))
        BY <1>3, <3>2, <3>3
      <4> QED BY <1>3, <4>1, InChunk
    <3>6. \E k \in Nat : /\ cur' \notin Late => streampos' = UpTo(cur', k * Chunk)
                         /\ left' = (Len(Text(cur')) - (k + Cardinality(Waiting')) * Chunk) % SizeMod
      BY <1>2, <1>5, <3>4, <3>5
    <3> QED BY <1>2, <1>3, <1>5, <3>6 DEF StreamInv
  <2>4. LinesInv'
    BY <1>2, LinesSame DEF SInv
  <2>5. Accounted'
    <3>1. \A t \in Threads : Hand(t)' = {}
      BY <1>2, <1>5 DEF Hand
    <3> QED BY <3>1 DEF Accounted
  <2> QED BY <1>1, <2>1, <2>2, <2>3, <2>4, <2>5 DEF SInv
<1> QED BY <1>4, <1>5, VisitHands

\* The pool is empty: whoever waited for a chunk has got one, and the stream is where the
\* count says.
LEMMA PoolJoinedKeeps ==
  ASSUME SInv, PoolJoined
  PROVE  SInv' /\ Unseen
<1> USE Identities
<1>1. IInv'
  BY PoolJoinedStep DEF SInv
<1>2. /\ pc \in {"joinbatch", "joinall"} /\ joined = spawned
      /\ UNCHANGED <<single, todo, cur, left, streampos, buf, from, got, printed>>
  BY DEF PoolJoined
<1>3. (\A t \in Threads : stage[t] = "idle") /\ open
  <2>1. spawned \in 0 .. ThreadLimit + 1
    BY DEF SInv, IInv, Shapes
  <2>2. \A t \in Slots : stage[t] = "idle"
    BY <1>2, <2>1 DEF SInv, IInv, PoolInv
  <2>3. stage[Main] = "idle" /\ open
    BY <1>2 DEF SInv, IInv, MainInv, PoolInv
  <2> QED BY <2>2, <2>3 DEF Threads
<1>4. CASE pc = "joinbatch"
  <2>1. pc' = "loop" /\ UNCHANGED <<open, stage, job, out>>
    BY <1>4 DEF PoolJoined
  <2>2. Moves(Main) /\ \A u \in Threads \ {Main} : stage'[u] = stage[u]
    BY <2>1 DEF Moves
  <2> QED BY <1>1, <1>2, <2>1, <2>2, MoveStep DEF stream, locals
<1>5. CASE pc = "joinall"
  <2>1. open' = FALSE /\ Output(cur, <<>>)
    BY <1>5 DEF PoolJoined
  <2>2. /\ cur \in Files \ Unopenable /\ left = 0 /\ left \in 0 .. SizeMod - 1
        /\ streampos \in Nat /\ streampos <= Len(Text(cur))
    BY <1>3, <1>5 DEF SInv, StreamInv
  <2>3. cur \notin Late => streampos = Len(Text(cur))
    <3>1. PICK k \in Nat : /\ cur \notin Late => streampos = UpTo(cur, k * Chunk)
                           /\ left = (Len(Text(cur)) - (k + Cardinality(Waiting)) * Chunk) % SizeMod
      BY <1>3 DEF SInv, StreamInv
    <3>2. Waiting = {}
      BY <1>3 DEF Waiting, Threads
    <3>3. k + Cardinality(Waiting) = k
      BY <3>2, FS_EmptySet
    <3> DEFINE y == k * Chunk
    <3>4. y \in Nat /\ (Len(Text(cur)) - y) % SizeMod = 0
      <4>1. Chunk \in Nat
        BY TargetFacts
      <4>2. y \in Nat
        BY <4>1, SMT
      <4> QED BY <2>2, <3>1, <3>3, <4>2
    <3> HIDE DEF y
    <3>5. Len(Text(cur)) \in 0 .. SizeMod - 1 /\ SizeMod \in Nat \ {0}
      BY <2>2, TextFacts
    <3>6. Len(Text(cur)) <= y
      BY <3>4, <3>5, AllAsked
    <3> QED BY <3>1, <3>4, <3>5, <3>6 DEF UpTo, y
  <2>4. Found(cur, 0, <<>>) /\ PlacesOf(0, <<>>) = {}
    BY FoundNothing
  <2>5. SInv'
    BY <1>1, <1>2, <1>3, <2>1, <2>2, <2>3, <2>4, OutputKeeps
  <2>6. \A t \in Threads : Hand(t)' = {} /\ Hand(t) = {}
    <3>1. Hand(Main)' = {} /\ \A t \in Threads \ {Main} : Hand(t)' = {}
      BY <1>2, <1>3, <2>1, <2>2, <2>4, OutputHands
    <3>2. \A t \in Threads : Hand(t) = {}
      BY <1>3 DEF Hand
    <3> QED BY <3>1, <3>2
  <2> QED BY <1>2, <2>5, <2>6 DEF Unseen
<1> QED BY <1>2, <1>4, <1>5

-----------------------------------------------------------------------------
(* In every reachable state.                                                 *)

LEMMA InitKeeps == Init => SInv
<1> SUFFICES ASSUME Init PROVE SInv
  OBVIOUS
<1> USE Identities
<1>1. IInv
  BY InitInv
<1>2. /\ cur = NoFile /\ pc = "next" /\ left = 0 /\ open = FALSE /\ streampos = 0 /\ printed = <<>>
      /\ stage = [t \in Threads |-> "idle"] /\ buf = [t \in Threads |-> <<>>]
      /\ from = [t \in Threads |-> 0] /\ got = [t \in Threads |-> 0]
      /\ out = [t \in Threads |-> <<>>]
      /\ todo \subseteq Files /\ single \in BOOLEAN
  BY DEF Init
<1>3. NoFile \notin Files /\ SizeMod \in Nat \ {0}
  BY SearchAssumption
<1>4. StreamInv
  BY <1>2, <1>3 DEF StreamInv
<1>5. <<>> \in Buffer /\ <<>> \in Seq(Match) /\ Len(<<>>) = 0
  BY EmptySeq DEF Buffer
<1>6. LocalShapes
  <2>1. 0 \in 0 .. Chunk
    BY TargetFacts
  <2> QED BY <1>2, <1>5, <2>1 DEF LocalShapes
<1>7. LocalInv
  BY <1>2, <1>5 DEF LocalInv, Local
<1>8. LinesInv
  <2>1. <<>> \in Seq({}) /\ DOMAIN <<>> = {}
    BY EmptySeq
  <2> QED BY <1>2, <1>3, <2>1 DEF LinesInv, Listed
<1>9. Accounted
  BY <1>2 DEF Accounted, Hand
<1> QED BY <1>1, <1>4, <1>6, <1>7, <1>8, <1>9 DEF SInv

\* Every step, of the main thread, of a reading thread or of the one that prints, keeps
\* the stream, what the threads hold and the lines in agreement.
THEOREM SearchInductive == SInv /\ [Next]_vars => SInv'
<1> SUFFICES ASSUME SInv, [Next]_vars PROVE SInv'
  OBVIOUS
<1>1. CASE UNCHANGED vars
  <2>1. IInv'
    BY Inductive DEF SInv
  <2>2. UNCHANGED <<single, todo, cur, left, pc, stage, stream, locals, printed>>
    BY <1>1 DEF vars, main
  <2>3. Moves(Main) /\ \A u \in Threads \ {Main} : stage'[u] = stage[u]
    BY <2>2 DEF Moves
  <2>4. /\ pc' \in {"next", "print", "done"} => ~open
        /\ pc' = "joinall" => left = 0
        /\ pc' \in {"next", "print"} => pc \in {"next", "print"}
    BY <2>2 DEF SInv, StreamInv
  <2> QED BY <2>1, <2>2, <2>3, <2>4, Identities, MoveStep
<1>2. CASE MainStep
  BY <1>2, VisitKeeps, MainMoves, SpawnKeeps, PoolJoinedKeeps DEF MainStep, WalkThrows, SpawnFails
<1>3. CASE \E t \in Threads : ThreadStep(t)
  BY <1>3, ThreadMoves, ReadStep, AdvanceStep, UnlockStep, PrintStep, UnlockFormatStep DEF ThreadStep
<1> QED BY <1>1, <1>2, <1>3 DEF Next

\* No place is in the hands of two threads or ahead of the stream, what a thread holds are
\* occurrences in the current file, the chunks read and asked for agree with left_so_far,
\* and the lines printed show the characters of their files.
THEOREM SearchSafety == Spec => []SInv
BY InitKeeps, SearchInductive, PTL DEF Spec

-----------------------------------------------------------------------------
(* What the runs check, for every instance.                                  *)

\* MutexInv says who holds a mutex; this, that nobody else is its holder.
Holders == fread \in {Nobody} \cup Threads /\ format \in {Nobody} \cup Threads

LEMMA HoldersAlways == Spec => []Holders
<1>1. Init => Holders
  BY DEF Init, Holders
<1>2. Holders /\ [Next]_vars => Holders'
  <2> SUFFICES ASSUME Holders, [Next]_vars PROVE Holders'
    OBVIOUS
  <2>1. CASE UNCHANGED vars \/ MainStep
    <3>1. UNCHANGED <<fread, format>>
      BY <2>1 DEF vars, MainStep, SmallFile, LargeFile, OutputDone, WalkThrows, SpawnFails, Crash,
                  Spawn, LoopEnds, Join, PoolJoined, Finish, mutexes
    <3> QED BY <3>1 DEF Holders
  <2>2. CASE \E t \in Threads : ThreadStep(t)
    <3>1. PICK t \in Threads : ThreadStep(t)
      BY <2>2
    <3>2. fread' \in {fread, Nobody, t} /\ format' \in {format, Nobody, t}
      BY <3>1 DEF ThreadStep, LockRead, ReadSome, Advance, UnlockRead, LockFormat, PrintLine,
                  UnlockFormat, mutexes
    <3> QED BY <3>2 DEF Holders
  <2> QED BY <2>1, <2>2 DEF Next
<1> QED BY <1>1, <1>2, PTL DEF Spec

\* Every variable has its type: left_so_far never leaves the unsigned range, the pool
\* never outgrows its vector, every buffer is empty or a whole chunk, and only a thread
\* of the pool holds fread_mutex.
THEOREM TypesAlways == Spec => []TypeOK
<1>1. SInv /\ Holders => TypeOK
  <2> SUFFICES ASSUME SInv, Holders PROVE TypeOK
    OBVIOUS
  <2>0. got \in [Threads -> 0 .. Chunk]
    BY DEF SInv, LocalShapes
  <2>1. /\ single \in BOOLEAN /\ todo \subseteq Files /\ cur \in Files \cup {NoFile}
        /\ pc \in {"next", "print", "loop", "joinbatch", "joinall", "done", "crashed"}
        /\ left \in 0 .. SizeMod - 1 /\ spawned \in 0 .. ThreadLimit + 1 /\ joined \in 0 .. spawned
        /\ open \in BOOLEAN /\ streampos \in Nat
        /\ stage \in [Threads -> Stages]
        /\ job \in [Threads -> Files \cup {NoFile}] /\ from \in [Threads -> Nat]
    BY DEF SInv, IInv, Shapes, StreamInv, LocalShapes
  <2>2. \A t \in Threads : Len(buf[t]) \in {0, Chunk}
    BY DEF SInv, LocalInv, Local
  <2>3. ASSUME NEW t \in Threads, NEW i \in DOMAIN out[t]
        PROVE  out[t][i].offset \in Nat
    <3>1. out[t] \in Seq(Match)
      BY DEF SInv, LocalShapes
    <3>2. out[t][i] \in Match
      <4> DEFINE v == out[t]
      <4>1. v \in Seq(Match) /\ i \in DOMAIN v
        BY <3>1
      <4> HIDE DEF v
      <4>2. i \in 1 .. Len(v)
        BY <4>1, LenProperties
      <4>3. v[i] \in Match
        BY <4>1, <4>2, ElementOfSeq
      <4> QED BY <4>3 DEF v
    <3> QED BY <3>2 DEF Match
  <2>4. fread \in {Nobody} \cup Slots /\ format \in {Nobody} \cup Threads
    <3>1. fread # Main
      BY Identities DEF SInv, IInv, MainInv, MutexInv, Reading
    <3> QED BY <3>1 DEF Holders, Threads
  <2>5. \A i \in DOMAIN printed : printed[i].file \in Files /\ printed[i].by \in Threads
    BY DEF SInv, LinesInv, TrueLine
  <2> QED BY <2>0, <2>1, <2>2, <2>3, <2>4, <2>5 DEF TypeOK, Stages
<1> QED BY <1>1, SearchSafety, HoldersAlways, PTL

\* The characters a line shows before and after a match are those of the file, escaped,
\* and never the byte that ends the buffer, whichever thread read the chunk and however
\* little readsome gave it: zeros stand only for what it did not deliver, (null) only
\* where the buffer has fewer than Context characters there.
THEOREM ContextAlways == Spec => []ContextFromFile
<1>1. SInv => ContextFromFile
  BY LinesTrue DEF SInv, LinesInv
<1> QED BY <1>1, SearchSafety, PTL

-----------------------------------------------------------------------------
(* The search keeps its promise.                                             *)

\* What Search sees.
Due == UNION {Hand(t) : t \in Threads}
Lines == [i \in DOMAIN printed |-> <<printed[i].file, printed[i].place>>]
Status == IF pc \in {"done", "crashed"} THEN pc ELSE "searching"
LengthOf(f) == IF f \in Unopenable THEN 0 ELSE Len(Text(f))

LEMMA Pieces ==
  ASSUME NEW f \in Files, NEW p, NEW n
  PROVE  Promise!InPiece(f, p, n) = IF f \in Unopenable THEN {{}}
                                    ELSE {Lying(f, p, p + n), Lying(f, p, p + n - 1)}
<1>1. CASE f \in Unopenable
  BY <1>1 DEF Promise!InPiece, Promise!Within
<1>2. CASE f \notin Unopenable
  BY <1>2 DEF Promise!InPiece, Promise!Within, Lying
<1> QED BY <1>1, <1>2

\* Between two files nothing is in hand, and the last one was searched to its end unless
\* readsome may deliver it late.
LEMMA NextIsComplete ==
  ASSUME SInv, pc = "next"
  PROVE  Promise!Complete
<1>1. \A t \in Threads : stage[t] = "idle"
  BY Quiet DEF SInv, Threads
<1>2. Due = {}
  BY <1>1 DEF Due, Hand
<1>3. ASSUME cur \in Files \ Late
      PROVE  LookedAt = LengthOf(cur)
  <2>1. cur # NoFile /\ Len(Text(cur)) \in Nat /\ SizeLimit \in Nat
    BY <1>3, TextFacts, SearchAssumption
  <2>2. cur \notin Unopenable /\ Len(Text(cur)) >= SizeLimit => streampos = Len(Text(cur))
    BY <1>3 DEF SInv, StreamInv
  <2> QED BY <2>1, <2>2 DEF LookedAt, LengthOf
<1> QED BY <1>2, <1>3 DEF Promise!Complete, Due, LengthOf

LEMMA BeginStep ==
  ASSUME SInv, NEW f \in Files, SmallFile(f) \/ LargeFile(f)
  PROVE  Promise!Next
<1> DEFINE n == LookedAt'
<1>1. /\ pc = "next" /\ f \in todo /\ todo' = todo \ {f} /\ cur' = f /\ UNCHANGED printed
      /\ pc' \in {"next", "print", "loop"}
      /\ n = IF f \notin Unopenable /\ Len(Text(f)) < SizeLimit THEN Len(Text(f)) ELSE 0
      /\ Due' \in IF f \in Unopenable THEN {{}} ELSE {Lying(f, 0, n), Lying(f, 0, n - 1)}
  BY VisitHands DEF Due
<1>2. Promise!Complete
  BY <1>1, NextIsComplete
<1>3. n \in 0 .. LengthOf(f) /\ 0 + n = n /\ 0 + n - 1 = n - 1
  BY <1>1, TextFacts DEF LengthOf
<1> HIDE DEF n
<1>4. Due' \in Promise!InPiece(f, 0, n)
  <2>1. Promise!InPiece(f, 0, n) = IF f \in Unopenable THEN {{}}
                                   ELSE {Lying(f, 0, 0 + n), Lying(f, 0, 0 + n - 1)}
    BY Pieces
  <2> QED BY <1>1, <1>3, <2>1, Zenon
<1>5. Promise!Begin(f)
  BY <1>1, <1>2, <1>3, <1>4 DEF Promise!Begin, Due, LengthOf, n
<1> QED BY <1>1, <1>5 DEF Promise!Next

\* The stream moves on: what lay in between is in the thread's hands.
LEMMA LookStep ==
  ASSUME SInv, NEW t \in Threads, Advance(t), pc # "crashed"
  PROVE  Promise!Next
<1> DEFINE n == got[t]
<1>1. /\ cur \in Files \ Unopenable /\ Len(Text(cur)) >= SizeLimit /\ pc # "done"
      /\ streampos \in Nat /\ n \in Nat /\ streampos' = streampos + n
      /\ streampos' <= Len(Text(cur)) /\ UNCHANGED <<todo, cur, pc, printed>>
      /\ \A u \in Threads \ {t} : Hand(u)' = Hand(u)
      /\ Hand(t) = {}
      /\ Hand(t)' \in {Lying(cur, streampos, streampos + n), Lying(cur, streampos, streampos + n - 1)}
  BY AdvanceHands
<1>2. cur # NoFile /\ Len(Text(cur)) \in Nat /\ SizeLimit \in Nat
  BY <1>1, TextFacts, SearchAssumption
<1>3. LookedAt = streampos /\ LookedAt' = streampos'
  BY <1>1, <1>2 DEF LookedAt
<1>4. Due' = Due \cup Hand(t)'
  BY <1>1 DEF Due
<1> HIDE DEF n
<1>5. Hand(t)' \in Promise!InPiece(cur, streampos, n)
  BY <1>1, Pieces
<1>6. streampos' \in streampos .. LengthOf(cur) /\ streampos' - streampos = n
  BY <1>1, <1>2 DEF LengthOf
<1>7. Promise!Look
  <2>1. Hand(t)' \in Promise!InPiece(cur, LookedAt, LookedAt' - LookedAt)
    BY <1>3, <1>5, <1>6
  <2>2. LookedAt' \in LookedAt .. LengthOf(cur)
    BY <1>3, <1>6
  <2> QED BY <1>1, <1>2, <1>4, <2>1, <2>2 DEF Promise!Look, Due, LengthOf
<1> QED BY <1>7 DEF Promise!Next

LEMMA LinesGrow ==
  ASSUME NEW S, printed \in Seq(S), NEW e, printed' = Append(printed, e)
  PROVE  Lines' = Append(Lines, <<e.file, e.place>>)
<1> DEFINE n == Len(printed)
           d == <<e.file, e.place>>
           T == {d} \cup {Lines[i] : i \in 1 .. n}
<1>1. /\ n \in Nat /\ DOMAIN printed = 1 .. n /\ DOMAIN printed' = 1 .. n + 1
      /\ \A i \in 1 .. n : printed'[i] = printed[i]
      /\ printed'[n + 1] = e
  BY AppendOne
<1> HIDE DEF n
<1>2. /\ DOMAIN Lines = 1 .. n /\ DOMAIN Lines' = 1 .. n + 1
      /\ \A i \in 1 .. n + 1 : Lines'[i] = <<printed'[i].file, printed'[i].place>>
      /\ \A i \in 1 .. n : Lines[i] = <<printed[i].file, printed[i].place>>
      /\ Lines' = [i \in 1 .. n + 1 |-> <<printed'[i].file, printed'[i].place>>]
      /\ Lines = [i \in 1 .. n |-> <<printed[i].file, printed[i].place>>]
  BY <1>1 DEF Lines
<1>3. Lines \in [1 .. n -> T]
  BY <1>2
<1>4. Lines \in Seq(T) /\ Len(Lines) = n
  <2> HIDE DEF T
  <2> QED BY <1>1, <1>3, FunctionIsSeq
<1> HIDE DEF d, T
<1> DEFINE w == Append(Lines, d)
<1>5. /\ DOMAIN w = 1 .. n + 1 /\ w[n + 1] = d /\ \A i \in 1 .. n : w[i] = Lines[i]
      /\ w = [i \in 1 .. n + 1 |-> w[i]]
  <2>1. /\ DOMAIN w = 1 .. n + 1 /\ w[n + 1] = d /\ \A i \in 1 .. n : w[i] = Lines[i]
        /\ w \in Seq(T \cup {d}) /\ Len(w) = n + 1
    <3> DEFINE m == Len(Lines)
    <3>1. /\ DOMAIN w = 1 .. m + 1 /\ w[m + 1] = d /\ \A i \in 1 .. m : w[i] = Lines[i]
          /\ w \in Seq(T \cup {d}) /\ Len(w) = m + 1
      BY <1>4, AppendOne
    <3> HIDE DEF w
    <3> QED BY <1>4, <3>1
  <2> HIDE DEF w
  <2>2. w = [i \in 1 .. n + 1 |-> w[i]]
    BY <2>1, LenProperties
  <2> QED BY <2>1, <2>2
<1> HIDE DEF w
<1>6. \A i \in 1 .. n + 1 : Lines'[i] = w[i]
  <2>1. ASSUME NEW i \in 1 .. n + 1, i # n + 1 PROVE i \in 1 .. n
    BY <1>1, <2>1
  <2>2. n + 1 \in 1 .. n + 1
    BY <1>1
  <2>3. \A i \in 1 .. n : Lines'[i] = w[i]
    <3>1. \A i \in 1 .. n : i \in 1 .. n + 1
      BY <1>1
    <3> QED BY <1>1, <1>2, <1>5, <3>1
  <2>4. Lines'[n + 1] = w[n + 1]
    BY <1>1, <1>2, <1>5, <2>2 DEF d
  <2> QED BY <2>1, <2>3, <2>4
<1>7. Lines' = [i \in 1 .. n + 1 |-> Lines'[i]]
  BY <1>2
<1>8. Lines' = w
  BY <1>5, <1>6, <1>7
<1> QED BY <1>8 DEF w, d

\* A line is about the current file and a place its thread held, and no other holds.
LEMMA TellStep ==
  ASSUME SInv, NEW t \in Threads, PrintLine(t), pc # "crashed"
  PROVE  Promise!Next
<1>1. PICK e, S : /\ printed \in Seq(S) /\ printed' = Append(printed, e)
                  /\ e.file = cur /\ e.place \in Hand(t) /\ Hand(t)' = Hand(t) \ {e.place}
                  /\ \A u \in Threads \ {t} : Hand(u)' = Hand(u)
  BY PrintHands
<1>2. stage[t] = "print" /\ UNCHANGED <<todo, cur, pc, streampos>>
  BY DEF PrintLine, main, stream
<1>3. pc # "done"
  BY <1>2, Identities DEF SInv, IInv, MainInv, PoolInv, StreamInv, Threads
<1>4. \A u \in Threads \ {t} : e.place \notin Hand(u)
  BY <1>1 DEF SInv, Accounted
<1>5. e.place \in Due /\ Due' = Due \ {e.place}
  BY <1>1, <1>4 DEF Due
<1>6. LookedAt' = LookedAt
  BY <1>2 DEF LookedAt
<1>7. Lines' = Append(Lines, <<cur, e.place>>)
  BY <1>1, LinesGrow
<1>8. Promise!Tell(e.place)
  BY <1>2, <1>3, <1>5, <1>6, <1>7 DEF Promise!Tell, Lines, Due
<1> QED BY <1>5, <1>8 DEF Promise!Next, Due

\* The steps the promise does not see.
LEMMA UnseenStep ==
  ASSUME Unseen
  PROVE  /\ UNCHANGED <<todo, cur, LookedAt, Due, Lines>>
         /\ Status' = Status => UNCHANGED Promise!vars
<1>1. UNCHANGED <<todo, cur, streampos, printed>> /\ \A t \in Threads : Hand(t)' = Hand(t)
  BY DEF Unseen
<1>2. LookedAt' = LookedAt /\ Lines' = Lines
  BY <1>1 DEF LookedAt, Lines
<1>3. Due' = Due
  BY <1>1 DEF Due
<1> QED BY <1>1, <1>2, <1>3 DEF Promise!vars, Status, Due, Lines

\* Files are searched one after the other and looked at piece by piece, no piece twice and
\* none skipped; an occurrence that lies in a piece, without its last byte, is printed
\* exactly once before the next file is begun or the program ends normally, whatever the
\* order in which the threads get the two mutexes.  A crash may leave some unprinted.  How
\* large a piece is is readsome's affair; only a file it delivers in full is promised to
\* be looked at to its end, and an occurrence across the edge of a piece is not promised.
THEOREM Refines == Spec => ImplementsSearch
<1>1. Init => Promise!Init
  <2> SUFFICES ASSUME Init PROVE Promise!Init
    OBVIOUS
  <2>1. /\ todo \subseteq Files /\ cur = NoFile /\ printed = <<>> /\ pc = "next"
        /\ \A t \in Threads : stage[t] = "idle"
    BY DEF Init
  <2>2. Lines = <<>>
    BY <2>1, EmptySeq DEF Lines
  <2>3. LookedAt = 0 /\ Due = {}
    BY <2>1 DEF LookedAt, Due, Hand
  <2> QED BY <2>1, <2>2, <2>3 DEF Promise!Init, Lines, Due
<1>2. SInv /\ [Next]_vars => [Promise!Next]_(Promise!vars)
  <2> SUFFICES ASSUME SInv, [Next]_vars PROVE Promise!Next \/ UNCHANGED Promise!vars
    OBVIOUS
  <2>1. CASE UNCHANGED vars
    <3>1. Unseen /\ Status' = Status
      BY <2>1 DEF vars, main, stream, locals, Unseen, Hand, Status
    <3> QED BY <3>1, UnseenStep
  <2>2. ASSUME NEW f \in Files, SmallFile(f) \/ LargeFile(f)
        PROVE  Promise!Next
    BY <2>2, BeginStep
  <2>3. CASE Finish
    <3>1. pc = "next" /\ todo = {} /\ pc' = "done" /\ Unseen
      BY <2>3, MainMoves DEF Finish
    <3>2. Promise!Complete
      BY <3>1, NextIsComplete
    <3>3. UNCHANGED <<todo, cur, LookedAt, Due, Lines>>
      BY <3>1, UnseenStep
    <3> QED BY <3>1, <3>2, <3>3 DEF Promise!End, Promise!Next, Due, Lines
  <2>4. CASE WalkThrows \/ SpawnFails
    <3>1. pc \in {"next", "loop"} /\ pc' = "crashed" /\ Unseen
      BY <2>4, MainMoves DEF WalkThrows, SpawnFails, Crash
    <3>2. UNCHANGED <<todo, cur, LookedAt, Due, Lines>>
      BY <3>1, UnseenStep
    <3> QED BY <3>1, <3>2 DEF Promise!GiveUp, Promise!Next, Due, Lines
  <2>5. CASE OutputDone \/ Spawn \/ LoopEnds \/ Join \/ PoolJoined
    <3>1. /\ pc \in {"print", "loop", "joinbatch", "joinall"}
          /\ pc' \in {"next", "print", "loop", "joinbatch", "joinall"}
      BY <2>5 DEF OutputDone, Spawn, LoopEnds, Join, PoolJoined, Output
    <3>2. Unseen
      BY <2>5, MainMoves, SpawnKeeps, PoolJoinedKeeps
    <3> QED BY <3>1, <3>2, UnseenStep DEF Status
  <2>6. ASSUME NEW t \in Threads, ThreadStep(t), pc # "crashed"
        PROVE  Promise!Next \/ UNCHANGED Promise!vars
    <3>1. CASE PrintLine(t)
      BY <2>6, <3>1, TellStep
    <3>2. CASE Advance(t)
      BY <2>6, <3>2, LookStep
    <3>3. CASE LockRead(t) \/ ReadSome(t) \/ UnlockRead(t) \/ LockFormat(t) \/ UnlockFormat(t)
      <4>1. Unseen
        BY <3>3, ThreadMoves, ReadStep, UnlockStep, UnlockFormatStep
      <4>2. UNCHANGED pc
        BY <3>3 DEF LockRead, ReadSome, UnlockRead, LockFormat, UnlockFormat, main
      <4> QED BY <4>1, <4>2, UnseenStep DEF Status
    <3> QED BY <2>6, <3>1, <3>2, <3>3 DEF ThreadStep
  <2> QED BY <2>1, <2>2, <2>3, <2>4, <2>5, <2>6 DEF Next, Running, MainStep
<1> QED BY <1>1, <1>2, SearchSafety, PTL DEF Spec, ImplementsSearch, Promise!Spec
===============================================================================
