---------------------------- MODULE MCMailServer ----------------------------
(***************************************************************************)
(* Instance of MailServer for TLC: two connections, and sizes of one or    *)
(* two bytes.  A token is no whole number of ints, so a receive can end in *)
(* the middle of it and of what follows.                                   *)
(***************************************************************************)
EXTENDS MailServer

MCCredentials == {[lg |-> 1, pw |-> 1]}

\* An arbitrary value that is no command.
MCLeftovers == {<<49>>}

=============================================================================
