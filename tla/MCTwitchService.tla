--------------------------- MODULE MCTwitchService ---------------------------
(***************************************************************************)
(* TwitchService with two logins and two connections, for TLC.             *)
(***************************************************************************)
EXTENDS TwitchService, TLC

\* Accounts differ in nothing but their identity.
AccountSymmetry == Permutations(Accounts)

\* What the properties say ends with the first step that overtakes a call of
\* connectToChat: that step is checked, what comes after it is not explored.
NotOvertaken == ~ overtaken

\* The chat window and the record of dangling uses decide no step of the
\* service, and the properties of this model see no more of them than their
\* types.
SessionView ==
    <<session, frame, login, conn, spawned, obj, outbox, crashed, overtaken>>
=============================================================================
