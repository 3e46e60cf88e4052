---------------------------- MODULE MCCodexProfiles ----------------------------
(* An instance of CodexProfiles for TLC: two profile names; logins of two   *)
(* users of one team, who share the account id, and one that does not say   *)
(* whose it is.                                                             *)
EXTENDS CodexProfiles, TLC

TwoNames == <<"home", "work">>

Team == {<<"A", "u">>, <<"A", "v">>, <<"A", "">>}
SomeLogins == {<<"A", "u">>, <<"A", "">>}
================================================================================
