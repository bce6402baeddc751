------------------------------ MODULE HostFiles ------------------------------
(***************************************************************************)
(* Reads and writes of host files (runtime/fs.c), system call by system     *)
(* call: os_mkdirs, os_write of bytes, os_write of a file, os_read.  Calls   *)
(* run at once on the threads of the pool, the user changes the files that   *)
(* are read and removes empty directories, and a system call may fail.  A    *)
(* call that is interrupted is made again, which is a stuttering step.       *)
(***************************************************************************)
EXTENDS Integers, FiniteSets, SequencesExt

CONSTANTS Calls,     \* the calls there are
          Ask,       \* what each asks: its kind, its path, its bytes or source file, a limit
          Names,     \* names of directory entries
          Paths,     \* sequences of names, with the ancestors of each
          Starts,    \* first trees, and the calls that are made on them
          Chars,     \* bytes a file can hold
          Nul,       \* the byte no text holds
          Buffer,    \* FS_WRITE_BUFFER_SIZE
          None, Dir, \* a path with nothing there; a directory
          MaxSize,   \* bound: bytes in a file the user changes
          MaxEdits,  \* bound: changes of the user
          MaxFaults  \* bound: system calls that fail

Kinds == {"mkdirs", "bytes", "file", "read"}
Contents == Seq(Chars \cup {Nul})

(* The file a call reads. *)
From(c) == IF Ask[c].kind = "read" THEN Ask[c].path ELSE Ask[c].from

(* No two calls write one file, and none writes what another copies or reads. *)
ASSUME HostFilesAssumption ==
  /\ \A c \in Calls :
       /\ Ask[c].kind \in Kinds /\ Ask[c].path \in Paths
       /\ Ask[c].bytes \in Contents /\ Ask[c].from \in Paths /\ Ask[c].limit \in Nat
  /\ \A c, d \in Calls : Ask[c].kind \in {"bytes", "file"} =>
       /\ c # d /\ Ask[d].kind \in {"bytes", "file"} => Ask[d].path # Ask[c].path
       /\ Ask[d].kind \in {"file", "read"} => From(d) # Ask[c].path
  /\ Paths \subseteq Seq(Names)
  /\ \A p \in Paths : p # <<>> /\ \A n \in 1..Len(p) : SubSeq(p, 1, n) \in Paths
  /\ \A start \in Starts :
       start.calls \subseteq Calls /\ start.tree \in [Paths -> Contents \cup {None, Dir}]
  /\ None # Dir /\ {None, Dir} \cap Contents = {}
  /\ Buffer \in Nat \ {0} /\ MaxEdits \in Nat /\ MaxFaults \in Nat /\ MaxSize \in Nat

VARIABLES tree,   \* what each path holds
          call,   \* the locals of each call, and what it did so far
          gone,   \* directories the user removed
          edits, faults

vars == <<tree, call, gone, edits, faults>>

(* The directory whose ancestors a call makes, itself included. *)
DirOf(c) == IF Ask[c].kind = "mkdirs" THEN Ask[c].path ELSE Front(Ask[c].path)

IsFile(p) == tree[p] \notin {None, Dir}
HasParent(p) == Len(p) = 1 \/ tree[Front(p)] = Dir

(* "seen" holds the contents its file had since the call opened it, "made"   *)
(* the paths it created or cut to nothing.                                   *)
Entered(c, calls) ==
  [pc |-> CASE c \notin calls -> "idle"
            [] Ask[c].kind = "file" -> "source"
            [] Ask[c].kind = "read" -> "open"
            [] OTHER -> "mkdirs",
   at |-> 1, todo |-> <<>>, data |-> <<>>, size |-> 0, seen |-> {}, made |-> {}, rc |-> 0]

Init ==
  /\ \E start \in Starts :
       tree = start.tree /\ call = [c \in Calls |-> Entered(c, start.calls)]
  /\ gone = {} /\ edits = 0 /\ faults = 0

-----------------------------------------------------------------------------
At(c, pc) == call[c].pc = pc
Becomes(c, locals) == call' = [call EXCEPT ![c] = locals]
Goes(c, pc) == Becomes(c, [call[c] EXCEPT !.pc = pc])
Fails(c) == Becomes(c, [call[c] EXCEPT !.pc = "close", !.rc = -1])
Calm == UNCHANGED <<gone, edits, faults>>

(* open_regular, before anything is created. *)
OpenSource(c) ==
  /\ At(c, "source")
  /\ IF IsFile(From(c))
     THEN Becomes(c, [call[c] EXCEPT !.pc = "mkdirs", !.seen = {tree[From(c)]}])
     ELSE Becomes(c, [call[c] EXCEPT !.pc = "done", !.rc = -1])
  /\ UNCHANGED tree /\ Calm

Ancestor(c) == SubSeq(DirOf(c), 1, call[c].at)

(* Mutant: a directory that is there already is an error. *)
MakeNewDir(c) ==
  /\ At(c, "mkdirs") /\ call[c].at <= Len(DirOf(c))
  /\ IF tree[Ancestor(c)] = None /\ HasParent(Ancestor(c))
     THEN /\ tree' = [tree EXCEPT ![Ancestor(c)] = Dir]
          /\ Becomes(c, [call[c] EXCEPT !.at = @ + 1, !.made = @ \cup {Ancestor(c)}])
     ELSE Fails(c) /\ UNCHANGED tree
  /\ Calm

(* mkdir comes first, and EEXIST leads to a stat. *)
MakeDir(c) ==
  /\ At(c, "mkdirs") /\ call[c].at <= Len(DirOf(c))
  /\ IF tree[Ancestor(c)] # None THEN Goes(c, "inspect") /\ UNCHANGED tree
     ELSE IF HasParent(Ancestor(c))
     THEN /\ tree' = [tree EXCEPT ![Ancestor(c)] = Dir]
          /\ Becomes(c, [call[c] EXCEPT !.at = @ + 1, !.made = @ \cup {Ancestor(c)}])
     ELSE Fails(c) /\ UNCHANGED tree
  /\ Calm

InspectDir(c) ==
  /\ At(c, "inspect")
  /\ IF tree[Ancestor(c)] = Dir
     THEN Becomes(c, [call[c] EXCEPT !.pc = "mkdirs", !.at = @ + 1])
     ELSE Fails(c)
  /\ UNCHANGED tree /\ Calm

EndMakeDirs(c) ==
  /\ At(c, "mkdirs") /\ call[c].at > Len(DirOf(c)) /\ Ask[c].kind = "mkdirs"
  /\ Goes(c, "done") /\ UNCHANGED tree /\ Calm

(* O_CREAT and O_TRUNC. *)
OpenTarget(c) ==
  /\ At(c, "mkdirs") /\ call[c].at > Len(DirOf(c)) /\ Ask[c].kind # "mkdirs"
  /\ IF HasParent(Ask[c].path) /\ tree[Ask[c].path] # Dir
     THEN /\ tree' = [tree EXCEPT ![Ask[c].path] = <<>>]
          /\ Becomes(c, [call[c] EXCEPT !.pc = "write", !.made = @ \cup {Ask[c].path},
                           !.todo = IF Ask[c].kind = "bytes" THEN Ask[c].bytes ELSE <<>>])
     ELSE Fails(c) /\ UNCHANGED tree
  /\ Calm

(* Mutant: a short write is taken for a whole one. *)
WriteOnce(c) ==
  /\ At(c, "write") /\ call[c].todo # <<>>
  /\ \E n \in 1..Len(call[c].todo) :
       /\ tree' = [tree EXCEPT ![Ask[c].path] = @ \o SubSeq(call[c].todo, 1, n)]
       /\ Becomes(c, [call[c] EXCEPT !.todo = <<>>])
  /\ Calm

(* write_all: a write may take any number of the bytes. *)
WriteSome(c) ==
  /\ At(c, "write") /\ call[c].todo # <<>>
  /\ \E n \in 1..Len(call[c].todo) :
       /\ tree' = [tree EXCEPT ![Ask[c].path] = @ \o SubSeq(call[c].todo, 1, n)]
       /\ Becomes(c, [call[c] EXCEPT !.todo = SubSeq(@, n + 1, Len(@))])
  /\ Calm

(* What a read of the open file can still get. *)
Rest(c) == SubSeq(tree[From(c)], Len(call[c].data) + 1, Len(tree[From(c)]))

(* os_write_source_stream: the end of the source ends the copy. *)
ReadChunk(c) ==
  /\ At(c, "write") /\ call[c].todo = <<>> /\ Ask[c].kind = "file" /\ Rest(c) # <<>>
  /\ \E n \in 1..Len(Rest(c)) :
       /\ n <= Buffer
       /\ Becomes(c, [call[c] EXCEPT !.todo = SubSeq(Rest(c), 1, n),
                                     !.data = @ \o SubSeq(Rest(c), 1, n)])
  /\ UNCHANGED tree /\ Calm

EndWrite(c) ==
  /\ At(c, "write") /\ call[c].todo = <<>> /\ (Ask[c].kind = "file" => Rest(c) = <<>>)
  /\ Goes(c, "close") /\ UNCHANGED tree /\ Calm

(* open_regular, and the limit against the size that fstat gives. *)
OpenRead(c) ==
  /\ At(c, "open")
  /\ IF IsFile(From(c))
     THEN Becomes(c, [call[c] EXCEPT
            !.pc = IF Len(tree[From(c)]) > Ask[c].limit THEN "close" ELSE "fill",
            !.rc = IF Len(tree[From(c)]) > Ask[c].limit THEN -1 ELSE 0,
            !.size = Len(tree[From(c)]), !.seen = {tree[From(c)]}])
     ELSE Becomes(c, [call[c] EXCEPT !.pc = "done", !.rc = -1])
  /\ UNCHANGED tree /\ Calm

(* fread: a stream may take in more than it was asked for.                   *)
Fill(c) ==
  /\ At(c, "fill") /\ Len(call[c].data) < call[c].size
  /\ IF Rest(c) = <<>> THEN Fails(c)
     ELSE \E n \in 1..Len(Rest(c)) :
            Becomes(c, [call[c] EXCEPT !.data = @ \o SubSeq(Rest(c), 1, n)])
  /\ UNCHANGED tree /\ Calm

(* One byte more than the size is a file that grew. *)
EndFill(c) ==
  /\ At(c, "fill") /\ Len(call[c].data) >= call[c].size
  /\ IF Len(call[c].data) > call[c].size \/ Rest(c) # <<>> \/ Nul \in Range(call[c].data)
     THEN Fails(c)
     ELSE Goes(c, "close")
  /\ UNCHANGED tree /\ Calm

Close(c) == At(c, "close") /\ Goes(c, "done") /\ UNCHANGED tree /\ Calm

(* Any system call may fail; the first failure is the result.                *)
SystemCallFails(c) ==
  /\ call[c].pc \notin {"idle", "done"} /\ faults < MaxFaults /\ faults' = faults + 1
  /\ Becomes(c, [call[c] EXCEPT !.rc = -1,
       !.pc = IF call[c].pc \in {"source", "open", "close"} THEN "done" ELSE "close"])
  /\ UNCHANGED <<tree, gone, edits>>

Step(c) ==
  \/ OpenSource(c) \/ MakeDir(c) \/ InspectDir(c) \/ EndMakeDirs(c) \/ OpenTarget(c)
  \/ WriteSome(c) \/ ReadChunk(c) \/ EndWrite(c)
  \/ OpenRead(c) \/ Fill(c) \/ EndFill(c) \/ Close(c)

-----------------------------------------------------------------------------
(* The user writes files in place: appends, cuts, or both, as a save does.   *)
Sources == {From(c) : c \in {d \in Calls : Ask[d].kind \in {"file", "read"}}}

Change(p, content) ==
  /\ IsFile(p) /\ edits < MaxEdits /\ edits' = edits + 1
  /\ tree' = [tree EXCEPT ![p] = content]
  /\ call' = [c \in Calls |->
                IF call[c].seen # {} /\ ~At(c, "done") /\ From(c) = p
                THEN [call[c] EXCEPT !.seen = @ \cup {content}] ELSE call[c]]
  /\ UNCHANGED <<gone, faults>>

AppendTo(p) ==
  /\ IsFile(p) /\ Len(tree[p]) < MaxSize
  /\ \E char \in Chars : Change(p, Append(tree[p], char))

CutShort(p) == IsFile(p) /\ \E n \in 0..(Len(tree[p]) - 1) : Change(p, SubSeq(tree[p], 1, n))

RemoveDir(p) ==
  /\ tree[p] = Dir /\ \A q \in Paths : Len(q) > 1 /\ Front(q) = p => tree[q] = None
  /\ edits < MaxEdits /\ edits' = edits + 1
  /\ tree' = [tree EXCEPT ![p] = None] /\ gone' = gone \cup {p}
  /\ UNCHANGED <<call, faults>>

User == (\E p \in Sources : AppendTo(p) \/ CutShort(p)) \/ \E p \in Paths : RemoveDir(p)

Next == (\E c \in Calls : Step(c) \/ SystemCallFails(c)) \/ User

Spec == Init /\ [][Next]_vars

-----------------------------------------------------------------------------
Succeeded(c) == At(c, "done") /\ call[c].rc = 0

(* A write that reports success left all the bytes, or all of a source that  *)
(* did not change meanwhile, whatever the other calls do and however short   *)
(* each write and read is.                                                   *)
WritesAreWhole ==
  \A c \in Calls : Succeeded(c) =>
    /\ Ask[c].kind = "bytes" => tree[Ask[c].path] = Ask[c].bytes
    /\ Ask[c].kind = "file" => \A content \in call[c].seen :
         call[c].seen = {content} => tree[Ask[c].path] = content
    /\ Ask[c].kind = "mkdirs" /\ gone = {} => tree[Ask[c].path] = Dir

(* A read that reports success returns text within the limit, and where the  *)
(* file only grew or only shrank meanwhile, the whole of what it was.        *)
ReadsAreWhole ==
  \A c \in Calls : Succeeded(c) /\ Ask[c].kind = "read" =>
    /\ Len(call[c].data) <= Ask[c].limit /\ Nul \notin Range(call[c].data)
    /\ (\A x, y \in call[c].seen : IsPrefix(x, y) \/ IsPrefix(y, x)) =>
         call[c].data \in call[c].seen

(* What reports success is done, all of it.                                  *)
SuccessIsWhole == WritesAreWhole /\ ReadsAreWhole

(* A call fails for a reason of its own: two calls that make one directory   *)
(* at once both succeed.  A copy without a source makes nothing.             *)
FailuresHaveAReason ==
  \A c \in Calls : At(c, "done") /\ call[c].rc = -1 =>
    \/ faults > 0
    \/ Ask[c].kind = "file" /\ call[c].seen = {} /\ ~IsFile(From(c)) /\ call[c].made = {}
    \/ /\ Ask[c].kind # "read" /\ (Ask[c].kind = "file" => call[c].seen # {})
       /\ \/ \E n \in 1..Len(DirOf(c)) : IsFile(SubSeq(DirOf(c), 1, n))
                                         \/ SubSeq(DirOf(c), 1, n) \in gone
          \/ Ask[c].kind # "mkdirs" /\ (tree[Ask[c].path] = Dir \/ Ask[c].path \in gone)
    \/ /\ Ask[c].kind = "read"
       /\ \/ ~IsFile(From(c)) \/ Cardinality(call[c].seen) > 1
          \/ \E content \in call[c].seen :
               Len(content) > Ask[c].limit \/ Nul \in Range(content)

(* A read that reports success returns one version of the file.              *)
ReadsOneVersion ==
  \A c \in Calls : Succeeded(c) /\ Ask[c].kind = "read" => call[c].data \in call[c].seen

=============================================================================
