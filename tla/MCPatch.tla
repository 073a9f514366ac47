------------------------------ MODULE MCPatch ------------------------------
(* A project of two files and the path of a third, and the diffs that tell *)
(* the cases of the patcher apart.                                         *)
EXTENDS PatchExecution

CONSTANTS fileF, fileG, newFile,   \* the paths
          remote, local           \* the providers

MCNorm == [t \in {"a", "a ", "b", "c", "d", "x"} |-> IF t = "a " THEN "a" ELSE t]

MCContents ==
    {(fileF :> <<"a", "b", "a", "c">>) @@ (fileG :> <<"d", "b">>) @@ (newFile :> Absent)}

Keep(t) == [kind |-> "keep", text |-> t]
Del(t)  == [kind |-> "del", text |-> t]
Add(t)  == [kind |-> "add", text |-> t]
At(start, lines) == [start |-> start, lines |-> lines]
Section(file, hunks) == [file |-> file, hunks |-> hunks]

\* A hunk that fits at two places, its context spelled otherwise.
ChangeA == At(2, <<Del("a "), Add("x")>>)
\* The same old side again: it must land after the first.
ThenA == At(2, <<Keep("a"), Add("d")>>)
\* A hunk that fits nowhere but can replace the range it names.
Drifted == At(2, <<Keep("d"), Del("c"), Add("x")>>)

MCDiffs == {
    <<Section(fileF, <<ChangeA, ThenA>>)>>,                         \* two hunks
    <<Section(fileF, <<ChangeA>>), Section(fileG, <<Drifted>>)>>,   \* the second file fails
    <<Section(fileF, <<ChangeA>>), Section(fileF, <<ThenA>>), Section(fileG, <<Drifted>>)>>,
    <<Section(fileF, <<ChangeA>>), Section(fileF, <<ThenA>>)>>,     \* one file, two sections
    <<Section(fileF, <<Drifted>>)>>,                                \* exact replacement
    <<Section(fileF, <<Drifted>>), Section(fileG, <<>>)>>,          \* in the file named last
    <<Section(newFile, <<At(0, <<Add("x")>>)>>),
      Section(fileG, <<At(2, <<Keep("b"), Add("a")>>)>>)>>
  }

MCResponses == {<<>>, <<"apply_patch">>, <<"apply_patch", "apply_patch">>,
                <<"other", "apply_patch">>, <<"other", "">>, <<"other">>}

\* Two providers, one of them local; a request may use both or none.
MCContexts ==
    [available : {<<>>, <<remote, local>>},
     role : {<<>>, <<local>>, <<local, remote>>}, task : {remote, local, NoProvider},
     reasoning : {local}, analysis : {remote, local}, high : BOOLEAN, tight : BOOLEAN]
=============================================================================
