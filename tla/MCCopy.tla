------------------------------ MODULE MCCopy -------------------------------
(* Instances of Copy. *)
EXTENDS Copy

CONSTANTS f1, f2, f3

C(kind, walk) == [kind |-> kind, walk |-> walk]

\* Downloads, of a directory of two files and of a file; or one copy of each of the
\* other kinds.  Two at a time.
TwoGroups == {<<C("down", <<f1, f2>>), C("down", <<f3>>)>>,
              <<C("up", <<f1>>), C("tpc", <<f2>>), C("local", <<f3>>)>>}

OneDownload == {<<C("down", <<f1>>)>>}

\* A source may be replaced between two attempts, if those do not resume ...
BetweenAttempts == {<<FALSE, FALSE>>}
\* ... or if they do.
BeforeResuming == {<<TRUE, FALSE>>}

=============================================================================
