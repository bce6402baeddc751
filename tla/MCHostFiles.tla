---------------------------- MODULE MCHostFiles ----------------------------
(***************************************************************************)
(* Two page jobs that share a missing parent directory, a copy into it, and *)
(* a read of the file that is copied.                                       *)
(***************************************************************************)
EXTENDS HostFiles

MCNames == {"out", "d", "f", "g", "s"}
Out == <<"out">>
Below == <<"out", "d">>
Page1 == <<"out", "d", "f">>
Page2 == <<"out", "d", "g">>
Source == <<"s">>
MCPaths == {Out, Below, Page1, Page2, Source}

Call(kind, path, bytes) ==
  [kind |-> kind, path |-> path, bytes |-> bytes, from |-> Source, limit |-> 2]

MCCalls == {"write", "join", "mkdirs", "read", "copy"}
MCAsk ==
  [c \in MCCalls |->
     CASE c = "write"  -> Call("bytes", Page1, <<"x", "y">>)
       [] c = "join"   -> Call("file", Page2, <<>>)
       [] c = "mkdirs" -> Call("mkdirs", Below, <<>>)
       [] c = "read"   -> Call("read", Source, <<>>)
       [] c = "copy"   -> Call("file", Out, <<>>)]

Tree(out, below, source) ==
  [p \in MCPaths |->
     CASE p = Out -> out [] p = Below -> below [] p = Source -> source [] OTHER -> None]

(* Calls with a common parent directory, and a copy beside a read.          *)
SharedTrees ==
  {Tree(out, None, source) : out \in {None, <<"x">>}, source \in {<<"x", "y">>, None}}
  \cup {Tree(Dir, below, <<"x">>) : below \in {Dir, <<"x">>}}
SourceTrees ==
  {Tree(out, None, source) : out \in {None, Dir},
     source \in {<<"x", "y">>, <<"x", Nul>>, <<"x", "y", "x">>, <<>>, None, Dir}}

MCStarts ==
  [tree : SharedTrees, calls : {{"write", "join"}, {"write", "mkdirs"}}]
  \cup [tree : SourceTrees, calls : {{"read", "copy"}}]
=============================================================================
