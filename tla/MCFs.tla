-------------------------------- MODULE MCFs --------------------------------
(***************************************************************************)
(* Instance of Fs: two processes, three inodes, workloads that make the    *)
(* calls meet.                                                             *)
(***************************************************************************)
EXTENDS Fs, TLC

CONSTANTS p1, p2

Entry(name, i) == [name |-> name, inum |-> i]
Dir(i, up, nlink, ents) == [type |-> "dir", nlink |-> nlink, ents |-> <<Entry(".", i), Entry("..", up)>> \o ents]
Plain(nlink) == [type |-> "file", nlink |-> nlink, ents |-> <<>>]

\* Trees: an empty root; a file /a; a directory /d; both; a directory in one.
Empty == <<Dir(1, 1, 1, <<>>), Free, Free>>
OneFile == <<Dir(1, 1, 1, <<Entry("a", 2)>>), Plain(1), Free>>
OneDir == <<Dir(1, 1, 2, <<Entry("d", 2)>>), Dir(2, 1, 1, <<>>), Free>>
Both == <<Dir(1, 1, 2, <<Entry("d", 2), Entry("a", 3)>>), Dir(2, 1, 1, <<>>), Plain(1)>>

Nested == <<Dir(1, 1, 2, <<Entry("d", 2)>>), Dir(2, 1, 2, <<Entry("e", 3)>>), Dir(3, 2, 1, <<>>)>>

Make(op, path, type) == [op |-> op, path |-> path, new |-> <<>>, type |-> type, write |-> TRUE]
creat(path) == Make("open", path, "file")
open(path) == Make("open", path, "none")
mkdir(path) == Make("mk", path, "dir")
mknod(path, type) == Make("mk", path, type)
link(old, new) == [Make("link", old, "none") EXCEPT !.new = new]
rm(path) == Make("unlink", path, "none")
chdir(path) == Make("chdir", path, "none")
close == Make("close", <<>>, "none")
exit == Make("exit", <<>>, "none")

Load(tree, c1, n1, c2, n2) ==
  [tree |-> tree, calls |-> (p1 :> c1 @@ p2 :> c2), max |-> (p1 :> n1 @@ p2 :> n2)]

MCWorkloads ==
  { \* a file is created and removed by both, one of them holding it open
    Load(Empty, {creat(<<"a">>), close, exit}, 2, {creat(<<"a">>), rm(<<"a">>), close}, 2),
    \* link against unlink of the old name, and against a new name that exists
    Load(OneFile, {link(<<"a">>, <<"b">>), link(<<"a">>, <<"a">>)}, 1,
                  {rm(<<"a">>), creat(<<"b">>), mknod(<<"b">>, "dev"), mknod(<<"b">>, "nodev")}, 2),
    Load(Both, {link(<<"a">>, <<"d", "b">>), link(<<"d">>, <<"b">>)}, 1,
               {rm(<<"d">>), rm(<<"a">>), rm(<<"/", "d", "b">>)}, 2),
    \* a directory is removed while calls walk through it, into it and from it
    Load(OneDir, {rm(<<"d">>), mkdir(<<"/", "d">>), rm(<<"d", "a">>)}, 2,
                 {creat(<<"d", "a">>), mkdir(<<"d", "a">>), chdir(<<"/", "d">>), chdir(<<"/">>), open(<<"d">>)}, 2),
    \* ".." of a directory that is removed, and then its parent
    Load(Nested, {chdir(<<"d", "e">>), open(<<"..">>), open(<<"d", "e", "..">>)}, 2,
                 {rm(<<"d", "e">>), rm(<<"d">>), creat(<<"b">>)}, 3) }
=============================================================================
