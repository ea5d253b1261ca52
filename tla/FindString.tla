----------------------------- MODULE FindString -----------------------------
(***************************************************************************)
(* src/eset/find_string_in_files/src/main.cpp: the program looks at one    *)
(* file, or walks over the files of a directory, and prints the places     *)
(* where a string occurs, with what stands before and after each.  A small *)
(* file is read whole by the main thread.  A large one is read in chunks   *)
(* by short-lived threads: they share one input stream, under fread_mutex, *)
(* and take the chunks in the order in which they get the mutex; each      *)
(* prints what it found under format_mutex.                                *)
(*                                                                         *)
(* A text is a sequence of characters; offsets count from 0, as in C++.    *)
(* Slot t of the thread pool is named t, the main thread 0.                *)
(***************************************************************************)
EXTENDS Integers, Sequences, FiniteSets, SequencesExt

CONSTANTS
  Files,         \* the files the path names
  Content,       \* file -> text
  Unopenable,    \* the files ifstream cannot open
  Late,          \* the files of which readsome may find less than it is asked for
  Target,        \* the string to look for
  Chunk,         \* CHUNK_SIZE
  SizeLimit,     \* FILE_SIZE_LIMIT: smaller files are read whole
  ThreadLimit,   \* THREAD_LIMIT
  Context,       \* the length of prefix and suffix, 3 in the code
  SizeMod,       \* 2^64: file_size() is unsigned
  SpawnMayFail,  \* may std::thread throw for want of resources?
  WalkMayThrow,  \* may a file vanish on the way, or a directory be closed to us?
  NoFile         \* stands for no file

Nul == "nul"        \* the character 0

\* The string to look for comes from argv, so it has no character 0.
ASSUME SearchAssumption ==
  /\ Content \in [Files -> Seq(STRING)] /\ Unopenable \subseteq Files /\ Late \subseteq Files
  /\ NoFile \notin Files
  /\ Target \in Seq(STRING) /\ Target # <<>> /\ \A i \in DOMAIN Target : Target[i] # Nul
  /\ Context \in Nat
  /\ Chunk \in Nat \ {0} /\ ThreadLimit \in Nat /\ SizeLimit \in Nat
  /\ SizeMod \in Nat \ {0} /\ SizeMod % Chunk = 0
  /\ \A f \in Files : Len(Content[f]) < SizeMod
  /\ SpawnMayFail \in BOOLEAN /\ WalkMayThrow \in BOOLEAN

VARIABLES
  single,     \* does the path name a file, not a directory?
  todo,       \* the files still to visit
  cur,        \* the file being processed
  pc,         \* where the main thread is
  left,       \* left_so_far
  spawned,    \* thread_pool.size()
  joined,     \* how many of the pool's threads the current loop has joined
  open,       \* is the local stream of process_large_file alive?
  streampos,  \* its position
  stage,      \* thread -> where it is in read_chunk or format_output
  job,        \* thread -> the path it was given
  buf,        \* thread -> its chunk
  from,       \* thread -> where in the file its buffer begins (a history variable)
  got,        \* thread -> how many characters its readsome extracts
  out,        \* thread -> the matches it has not printed yet
  fread,      \* holder of fread_mutex, or Nobody
  format,     \* holder of format_mutex, or Nobody
  printed     \* the lines on stdout

Main == 0
Nobody == -1
Slots == 1 .. ThreadLimit + 1
Threads == {Main} \cup Slots

main == <<single, todo, cur, pc, left, spawned, joined>>
stream == <<open, streampos>>
locals == <<job, buf, from, got, out>>
mutexes == <<fread, format>>
vars == <<main, stream, stage, locals, mutexes, printed>>

Text(f) == Content[f]

-----------------------------------------------------------------------------
(* process_chunk and format_string.                                          *)

NullText == <<"(null)">>

Occurs(s, o) == o + Len(Target) <= Len(s) /\ \A i \in 1 .. Len(Target) : s[o + i] = Target[i]
Places(s) == {o \in 0 .. Len(s) : Occurs(s, o)}

\* The members of a set of numbers, in ascending order.
InOrder(S) ==
  CHOOSE s \in [1 .. Cardinality(S) -> S] : \A i, j \in DOMAIN s : i < j => s[i] < s[j]

Prefix(s, o) == IF o >= Context THEN SubSeq(s, o - Context + 1, o) ELSE NullText
Suffix_BugLastByte(s, o) ==
  IF o + Len(Target) + Context <= Len(s)
  THEN SubSeq(s, o + Len(Target) + 1, o + Len(Target) + Context) ELSE NullText
Suffix(s, o) == IF o + Len(Target) + Context < Len(s)
                THEN SubSeq(s, o + Len(Target) + 1, o + Len(Target) + Context) ELSE NullText

ProcessChunk(s) ==
  LET hit(o) == [offset |-> o, prefix |-> Prefix(s, o), suffix |-> Suffix(s, o)]
      places == InOrder(Places(s))
  IN  [i \in DOMAIN places |-> hit(places[i])]

\* The case of '\b' has no break and goes on to that of ' '.
Escape(c) == CASE c = "tab"       -> <<"\\t">>
               [] c = "newline"   -> <<"\\n">>
               [] c = "return"    -> <<"\\r">>
               [] c = "backspace" -> <<"\\b", "<space>">>
               [] c = " "         -> <<"<space>">>
               [] OTHER           -> <<c>>
FormatString(s) == FlattenSeq([i \in DOMAIN s |-> Escape(s[i])])

\* The last byte of a buffer is overwritten, of an empty one a byte before it.
Terminated(s) == IF s = <<>> THEN s ELSE [s EXCEPT ![Len(s)] = Nul]

\* How many of n characters readsome extracts of file f at position p: those that
\* are available at once, which need not be all there are.
Immediate(f, p, n) ==
  LET all == IF p + n <= Len(Text(f)) THEN n ELSE Len(Text(f)) - p
  IN  IF f \in Late THEN 0 .. all ELSE {all}

\* A new buffer of len bytes into which n characters of file f are read at position p.
Filled(f, p, n, len) == [i \in 1 .. len |-> IF i <= n THEN Text(f)[p + i] ELSE Nul]

-----------------------------------------------------------------------------
(* main and process.                                                         *)

\* A call without a path, or with one that does not exist, has nothing to visit.
Init ==
  /\ \/ single = FALSE /\ todo = Files
     \/ single = TRUE /\ todo \in {{f} : f \in Files} \cup {{}}
  /\ cur = NoFile /\ pc = "next" /\ left = 0 /\ spawned = 0 /\ joined = 0
  /\ open = FALSE /\ streampos = 0
  /\ stage = [t \in Threads |-> "idle"] /\ job = [t \in Threads |-> NoFile]
  /\ buf = [t \in Threads |-> <<>>] /\ from = [t \in Threads |-> 0]
  /\ got = [t \in Threads |-> 0] /\ out = [t \in Threads |-> <<>>]
  /\ fread = Nobody /\ format = Nobody /\ printed = <<>>

Visit(f) ==
  /\ pc = "next" /\ f \in todo
  /\ todo' = todo \ {f} /\ cur' = f /\ UNCHANGED single

\* The main thread calls format_output: for the path it was given in any case,
\* in a directory only when there are matches.
Output(f, vec) ==
  IF vec = <<>> /\ ~single THEN pc' = "next" /\ UNCHANGED <<stage, job, out>>
  ELSE /\ pc' = "print" /\ stage' = [stage EXCEPT ![Main] = "format"]
       /\ job' = [job EXCEPT ![Main] = f] /\ out' = [out EXCEPT ![Main] = vec]

SmallFile(f) ==
  /\ Visit(f)
  /\ Len(Text(f)) < SizeLimit
  /\ Output(f, IF f \in Unopenable THEN <<>> ELSE ProcessChunk(Terminated(Text(f))))
  /\ UNCHANGED <<left, spawned, joined, stream, buf, from, got, mutexes, printed>>

OutputDone ==
  /\ pc = "print" /\ stage[Main] = "exit"
  /\ pc' = "next" /\ stage' = [stage EXCEPT ![Main] = "idle"]
  /\ UNCHANGED <<single, todo, cur, left, spawned, joined, stream, locals, mutexes, printed>>

LargeFile(f) ==
  /\ Visit(f)
  /\ Len(Text(f)) >= SizeLimit
  /\ IF f \in Unopenable THEN Output(f, <<>>) /\ UNCHANGED <<left, stream>>
     ELSE /\ pc' = "loop" /\ left' = Len(Text(f)) /\ open' = TRUE /\ streampos' = 0
          /\ UNCHANGED <<stage, job, out>>
  /\ UNCHANGED <<spawned, joined, buf, from, got, mutexes, printed>>

\* The iterator or file_size() throws, or std::thread does; nobody catches, and
\* the program terminates, with it all its threads.
Crash == pc' = "crashed"
         /\ UNCHANGED <<single, todo, cur, left, spawned, joined, stream, stage, locals,
                        mutexes, printed>>
WalkThrows == WalkMayThrow /\ pc = "next" /\ todo # {} /\ Crash
SpawnFails == SpawnMayFail /\ pc = "loop" /\ left > 0 /\ Crash

(* The loop of process_large_file.  left_so_far - CHUNK_SIZE is unsigned:     *)
(* it is never less than 0, and it wraps.                                    *)
Minus(x, y) == (x - y) % SizeMod
ChunkWanted(l) == IF Minus(l, Chunk) < 0 THEN l ELSE Chunk

PoolFull_BugNever(n) == FALSE
PoolFull(n) == n > ThreadLimit

Spawn ==
  /\ pc = "loop" /\ left > 0
  /\ left' = Minus(left, Chunk)
  /\ spawned' = spawned + 1
  /\ stage' = [stage EXCEPT ![spawned + 1] = "lock"]
  /\ job' = [job EXCEPT ![spawned + 1] = cur]
  /\ buf' = [buf EXCEPT ![spawned + 1] = [i \in 1 .. ChunkWanted(left) |-> Nul]]
  /\ pc' = IF PoolFull(spawned + 1) THEN "joinbatch" ELSE "loop"
  /\ UNCHANGED <<single, todo, cur, joined, stream, from, got, out, mutexes, printed>>

LoopEnds_BugNoJoin ==
  /\ pc = "loop" /\ left = 0
  /\ pc' = "next" /\ open' = FALSE
  /\ UNCHANGED <<single, todo, cur, left, spawned, joined, streampos, stage, locals,
                 mutexes, printed>>

LoopEnds ==
  /\ pc = "loop" /\ left = 0
  /\ pc' = "joinall"
  /\ UNCHANGED <<single, todo, cur, left, spawned, joined, stream, stage, locals,
                 mutexes, printed>>

Join ==
  /\ pc \in {"joinbatch", "joinall"} /\ joined < spawned
  /\ stage[joined + 1] = "exit"
  /\ joined' = joined + 1 /\ stage' = [stage EXCEPT ![joined + 1] = "idle"]
  /\ UNCHANGED <<single, todo, cur, pc, left, spawned, stream, locals, mutexes, printed>>

PoolJoined ==
  /\ pc \in {"joinbatch", "joinall"} /\ joined = spawned
  /\ joined' = 0 /\ spawned' = 0
  /\ IF pc = "joinbatch" THEN pc' = "loop" /\ UNCHANGED <<open, stage, job, out>>
     ELSE open' = FALSE /\ Output(cur, <<>>)
  /\ UNCHANGED <<single, todo, cur, left, streampos, buf, from, got, mutexes, printed>>

Finish ==
  /\ pc = "next" /\ todo = {}
  /\ pc' = "done"
  /\ UNCHANGED <<single, todo, cur, left, spawned, joined, stream, stage, locals,
                 mutexes, printed>>

-----------------------------------------------------------------------------
(* read_chunk: the threads.  The stream's position is read and moved inside   *)
(* readsome, under the mutex; how much it extracted is asked by nobody.      *)

LockRead_BugFree(t) ==
  /\ stage[t] = "lock"
  /\ stage' = [stage EXCEPT ![t] = "read"] /\ fread' = t
  /\ UNCHANGED <<main, stream, locals, format, printed>>

LockRead(t) ==
  /\ stage[t] = "lock" /\ fread = Nobody
  /\ stage' = [stage EXCEPT ![t] = "read"] /\ fread' = t
  /\ UNCHANGED <<main, stream, locals, format, printed>>

ReadSome(t) ==
  /\ stage[t] = "read"
  /\ \E n \in Immediate(cur, streampos, Len(buf[t])) :
       /\ buf' = [buf EXCEPT ![t] = Filled(cur, streampos, n, Len(@))]
       /\ got' = [got EXCEPT ![t] = n]
  /\ from' = [from EXCEPT ![t] = streampos]
  /\ stage' = [stage EXCEPT ![t] = "advance"]
  /\ UNCHANGED <<main, stream, job, out, mutexes, printed>>

Advance(t) ==
  /\ stage[t] = "advance"
  /\ streampos' = from[t] + got[t] /\ got' = [got EXCEPT ![t] = 0]
  /\ stage' = [stage EXCEPT ![t] = "unlock"]
  /\ UNCHANGED <<main, open, job, buf, from, out, mutexes, printed>>

UnlockRead_BugOnlyMatches(t) ==
  /\ stage[t] = "unlock"
  /\ out' = [out EXCEPT ![t] = ProcessChunk(Terminated(buf[t]))]
  /\ fread' = IF out'[t] = <<>> THEN fread ELSE Nobody
  /\ stage' = [stage EXCEPT ![t] = "format"]
  /\ UNCHANGED <<main, stream, job, buf, from, got, format, printed>>

UnlockRead(t) ==
  /\ stage[t] = "unlock" /\ fread' = Nobody
  /\ out' = [out EXCEPT ![t] = ProcessChunk(Terminated(buf[t]))]
  /\ stage' = [stage EXCEPT ![t] = "format"]
  /\ UNCHANGED <<main, stream, job, buf, from, got, format, printed>>

(* format_output, of a thread or of the main thread.                         *)
LockFormat_BugFree(t) ==
  /\ stage[t] = "format"
  /\ stage' = [stage EXCEPT ![t] = "print"] /\ format' = t
  /\ UNCHANGED <<main, stream, locals, fread, printed>>

LockFormat(t) ==
  /\ stage[t] = "format" /\ format = Nobody
  /\ stage' = [stage EXCEPT ![t] = "print"] /\ format' = t
  /\ UNCHANGED <<main, stream, locals, fread, printed>>

PrintLine(t) ==
  /\ stage[t] = "print" /\ out[t] # <<>>
  /\ LET m == Head(out[t])
     IN  printed' = Append(printed,
           [file |-> job[t], offset |-> m.offset, prefix |-> FormatString(m.prefix),
            suffix |-> FormatString(m.suffix), place |-> from[t] + m.offset, by |-> t])
  /\ out' = [out EXCEPT ![t] = Tail(@)]
  /\ UNCHANGED <<main, stream, stage, job, buf, from, got, mutexes>>

UnlockFormat(t) ==
  /\ stage[t] = "print" /\ out[t] = <<>>
  /\ stage' = [stage EXCEPT ![t] = "exit"] /\ format' = Nobody
  /\ buf' = [buf EXCEPT ![t] = <<>>] /\ from' = [from EXCEPT ![t] = 0]
  /\ UNCHANGED <<main, stream, job, got, out, fread, printed>>

MainStep ==
  \/ \E f \in Files : SmallFile(f) \/ LargeFile(f)
  \/ OutputDone \/ WalkThrows \/ Spawn \/ SpawnFails
  \/ LoopEnds \/ Join \/ PoolJoined \/ Finish

ThreadStep(t) ==
  \/ LockRead(t) \/ ReadSome(t) \/ Advance(t) \/ UnlockRead(t)
  \/ LockFormat(t) \/ PrintLine(t) \/ UnlockFormat(t)

Running == pc # "crashed"
Next == Running /\ (MainStep \/ \E t \in Threads : ThreadStep(t))

\* The operating system runs every thread that can run, and a mutex that is
\* free goes to somebody who waits for it.
Fairness == WF_vars(Running /\ MainStep) /\ \A t \in Threads : WF_vars(Running /\ ThreadStep(t))
Spec == Init /\ [][Next]_vars
FairSpec == Spec /\ Fairness

-----------------------------------------------------------------------------
(* The state's variables have their types.                                    *)
TypeOK ==
  /\ single \in BOOLEAN /\ todo \subseteq Files /\ cur \in Files \cup {NoFile}
  /\ pc \in {"next", "print", "loop", "joinbatch", "joinall", "done", "crashed"}
  /\ left \in 0 .. SizeMod - 1 /\ spawned \in 0 .. ThreadLimit + 1 /\ joined \in 0 .. spawned
  /\ open \in BOOLEAN /\ streampos \in Nat
  /\ stage \in [Threads -> {"idle", "lock", "read", "advance", "unlock", "format", "print", "exit"}]
  /\ job \in [Threads -> Files \cup {NoFile}] /\ from \in [Threads -> Nat]
  /\ got \in [Threads -> 0 .. Chunk] /\ \A t \in Threads : Len(buf[t]) \in {0, Chunk}
  /\ \A t \in Threads : \A i \in DOMAIN out[t] : out[t][i].offset \in Nat
  /\ fread \in {Nobody} \cup Slots /\ format \in {Nobody} \cup Threads
  /\ \A i \in DOMAIN printed : printed[i].file \in Files /\ printed[i].by \in Threads

\* Every thread holds a reference to a stream that is a local variable of
\* process_large_file: nobody uses it after that function has returned, nor
\* while it is the stream of another file.
StreamOutlivesThreads ==
  \A t \in Slots : stage[t] \in {"lock", "read", "advance", "unlock"} => open /\ job[t] = cur

-----------------------------------------------------------------------------
(* What is looked at is found once, and printed.                             *)

\* The matches a thread has in hand: in the chunk it has read, or not printed yet.
Hits(s) == Places(Terminated(s))
PlacesOf(p, v) == {p + v[i].offset : i \in DOMAIN v}
Hand(t) == IF stage[t] = "unlock" THEN {from[t] + o : o \in Hits(buf[t])}
           ELSE IF stage[t] \in {"format", "print"} THEN PlacesOf(from[t], out[t]) ELSE {}

\* A small file is looked at in one piece, a large one up to where the stream stands.
LookedAt == IF cur \in {NoFile} \cup Unopenable THEN 0
            ELSE IF Len(Text(cur)) < SizeLimit THEN Len(Text(cur)) ELSE streampos

\* Files are searched one after the other and looked at piece by piece: no piece is
\* looked at twice, none is skipped, and what lies in one, but for its last byte, is
\* printed once before the next file is begun.  Only a file readsome delivers late may
\* be left before its end.  An occurrence that reaches over the edge of a piece or ends
\* with its last byte is nobody's promise here: README asks for it, OutputAsDescribed.
Promise == INSTANCE Search
             WITH Length <- [f \in Files |-> IF f \in Unopenable THEN 0 ELSE Len(Text(f))],
                  Occurring <- [f \in Files |-> IF f \in Unopenable THEN {} ELSE Places(Text(f))],
                  Span <- Len(Target), Whole <- Files \ Late,
                  waiting <- todo, current <- cur, upto <- LookedAt,
                  due <- UNION {Hand(t) : t \in Threads},
                  lines <- [i \in DOMAIN printed |-> <<printed[i].file, printed[i].place>>],
                  status <- IF pc \in {"done", "crashed"} THEN pc ELSE "searching"
ImplementsSearch == Promise!Spec

\* What a line shows around a match is what the file has there, with control
\* characters escaped, and never the byte that ends the buffer; zeros follow where
\* readsome delivered nothing more.  (null) is shown only where the buffer has too
\* little of it; that this is not all the file has is the matter of OutputAsDescribed.
BufferLen(f) == IF Len(Text(f)) < SizeLimit THEN Len(Text(f)) ELSE Chunk
ContextFromFile ==
  \A i \in DOMAIN printed :
    LET l == printed[i]
        after == l.place + Len(Target)
    IN  /\ \/ l.offset < Context /\ l.prefix = NullText
           \/ /\ l.place >= Context
              /\ l.prefix = FormatString(SubSeq(Text(l.file), l.place - Context + 1, l.place))
        /\ \/ /\ l.offset + Len(Target) + Context >= BufferLen(l.file)
              /\ l.suffix = NullText
           \/ \E n \in Immediate(l.file, after, Context) :
                l.suffix = FormatString(Filled(l.file, after, n, Context))
        /\ \A c \in {"tab", "newline", "return"} :
             ~Contains(l.prefix, c) /\ ~Contains(l.suffix, c)

\* The lines of one call of format_output are together: after a line that is not
\* its last, the next line comes from the same call.
LinesTogether ==
  [][\A t \in Threads : out[t] # <<>> /\ stage[t] = "print" /\ printed' # printed
       => printed'[Len(printed')].by = t]_vars

\* README: "Print the output to stdout lines in format file(position): prefix...suffix",
\* position is the "Offset within the file where the string started", and "When there
\* are not enough characters for the whole prefix or suffix (at the beginning or end of
\* the file), use as many as there are available": so for each occurrence in each file.
Visited == IF single THEN {cur} \ {NoFile} ELSE Files
Described(f, o) ==
  LET s == Text(f)
      before == SubSeq(s, 1, o)
      after == SubSeq(s, o + Len(Target) + 1, Len(s))
      few(t) == IF Len(t) < Context THEN Len(t) ELSE Context
  IN  [file |-> f, position |-> o,
       prefix |-> FormatString(SubSeq(before, o - few(before) + 1, o)),
       suffix |-> FormatString(SubSeq(after, 1, few(after)))]
Shown(l) == [file |-> l.file, position |-> l.offset, prefix |-> l.prefix, suffix |-> l.suffix]
OutputAsDescribed ==
  pc = "done" => {Shown(printed[i]) : i \in DOMAIN printed}
                  = UNION {{Described(f, o) : o \in Places(Text(f))} : f \in Visited \ Unopenable}

\* The program ends, if only because nobody catches what is thrown.
Terminates == <>(pc \in {"done", "crashed"})
=============================================================================
