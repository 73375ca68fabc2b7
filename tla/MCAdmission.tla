---------------------------- MODULE MCAdmission ----------------------------
(* A small instance of Admission for TLC. *)
EXTENDS Admission, TLC

Parent == "d"
Child == "d-post-deploy"
Both == {Parent, Child}
ChildOf == Parent :> Child

S(repoName, release, postRepoName, postRelease) ==
    [repoName |-> repoName, release |-> release,
     postRepoName |-> postRepoName, postRelease |-> postRelease]

None == << >>
Space == <<" ">>
A == <<"a">>
B == <<"b">>

\* Specs on each side of every rule; the last four break one rule or several.
Samples ==
    { S(A, A, None, None), S(A, B, None, None), S(B, A, B, A),
      S(A, A, B, B), S(<<" ", "a">>, A, <<" ", "b">>, B), S(A, A, Space, Space),
      S(A, A, B, None),
      S(A, A, B, <<".", "a">>), S(A, <<"a", "~">>, B, <<"a", ".", "lock">>),
      S(Space, <<"a", ".", ".", "b">>, None, <<"a", "@", "{">>) }
=============================================================================
