----------------------------- MODULE MCMetaSync -----------------------------
(* Small instances of MetaSync for TLC.                                    *)
EXTENDS MetaSync, TLC

CONSTANTS n1, n2, s1, p1, A

(* One data server reports to each metadata server.                        *)
MCHome == [s \in Server |-> IF s = s1 THEN n1 ELSE n2]
=============================================================================
