----------------------------- MODULE MCSqlStore -----------------------------
(* Small instances of SqlStore for TLC. *)
EXTENDS SqlStore

MCIntHalf == 1
MCScores == {1}
MCTTLs == {1}
OneMember == {1}
TwoMembers == {1, 2}
ZeroAndOne == {0, 1}
OnlyOne == {1}
=============================================================================
