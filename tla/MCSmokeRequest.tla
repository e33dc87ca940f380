---- MODULE MCSmokeRequest ----
(* SmokeRequest for TLC: int32s of 8 bits, and command lines that vary one thing at a *)
(* time around two that go through.                                                    *)
EXTENDS SmokeRequest

Entry(rank, name, kind) == [rank |-> rank, name |-> name, kind |-> kind, wellNamed |-> TRUE, length |-> 1]
A == Entry(1, <<"a">>, "ruleset")
AB == Entry(2, <<"a", "b">>, "ruleset")
Readme == Entry(3, <<"readme">>, "other")
Dirs == {{A}, {AB, A, Readme}, {Readme}, {A, Entry(4, <<"e">>, "empty")},
         {A, Entry(5, <<"u">>, "unreadable")}, {A, [AB EXCEPT !.wellNamed = FALSE]},
         {A, [AB EXCEPT !.length = 50]}}

\* Once, twice, a version that is too low, one that wraps to 71, one that wraps below zero.
Chromes == {<<Number(71)>>, <<Number(100), Blank, Number(71)>>, <<Number(71), Number(71)>>,
            <<Number(70)>>, <<Number(327)>>, <<Number(327), Number(71)>>, <<Number(200)>>,
            <<Blank>>, <<Blank, Blank>>, <<Number(71), Junk>>}
Firefoxes == {<<Number(102)>>, <<Blank>>}

CommandLine(tool, chrome, firefox, dir, repo, pr, sha, complete) ==
  [tool |-> tool, chrome |-> chrome, firefox |-> firefox, dir |-> dir,
   repo |-> repo, pr |-> pr, sha |-> sha, complete |-> complete]

MCInvocations ==
  {CommandLine(tool, <<Number(100), Blank, Number(71)>>, <<Number(102)>>, dir, repo, 7, 1, TRUE) :
     tool \in {"gubalctl", "chrome-sweep"}, dir \in Dirs, repo \in {"none", "allowed"}}
  \cup
  {CommandLine(tool, chrome, firefox, {A}, repo, 7, 0, TRUE) :
     tool \in {"gubalctl", "chrome-sweep"}, chrome \in Chromes, firefox \in Firefoxes,
     repo \in {"none", "allowed"}}
  \cup
  {CommandLine("gubalctl", <<Number(71)>>, <<Number(102)>>, {A, AB}, repo, pr, sha, complete) :
     repo \in {"none", "allowed", "other", "malformed"}, pr \in {0, 7, 200, 263}, sha \in {0, 9},
     complete \in BOOLEAN}
  \cup
  {CommandLine("gubalctl", <<Number(-185)>>, <<Number(102)>>, {A}, "none", 0, 0, TRUE)}
==============================
