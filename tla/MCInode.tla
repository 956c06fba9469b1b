------------------------------ MODULE MCInode ------------------------------
EXTENDS Inode, TLC

Rel(e) == [abs |-> FALSE, elems |-> e]
C(op, e, t) == [op |-> op, path |-> Rel(e), type |-> t, new |-> NoPath, rdonly |-> FALSE]

Symmetry == Permutations(Procs)

(* everything in one directory *)
FlatCalls == {C("create", <<"a">>, "file"), C("open", <<"a">>, "free"),
              C("unlink", <<"a">>, "free"), NoCall}

(* a file, and directories one in another; ".." of the working directory *)
TreeCalls ==
  {C("create", <<"a", "a">>, "file"), C("create", <<"a">>, "dir"), NoCall,
   C("unlink", <<"a">>, "free"), C("unlink", <<"a", "a">>, "free"),
   C("chdir", <<"a">>, "free"), C("open", <<"..">>, "free"),
   [C("link", <<"a", "a">>, "free") EXCEPT !.new = Rel(<<"b">>)]}
=============================================================================
