------------------------------- MODULE Mailbox -------------------------------
(***************************************************************************)
(* What the two post servers (YB_4 and LK_4) promise their clients: the    *)
(* mail store is one object, and every command acts on it in one atomic    *)
(* step.  Nothing is said of threads, of the mutex, of the file that holds *)
(* the mail or of the frames that carry an answer.                         *)
(***************************************************************************)
CONSTANTS
  Clients,        \* connections to the server
  Phones,         \* phone numbers, the names clients go by
  NoPhone,        \* the name of a connection that has not introduced itself
  Records,        \* everything that could ever be stored
  IsFor(_, _),    \* IsFor(r, p): record r is addressed to phone p
  IsFrom(_, _)    \* IsFrom(r, p): record r was written by phone p

VARIABLES
  box,            \* the records stored
  who,            \* who[c]: the phone connection c introduced itself with
  asked,          \* asked[c]: the command of c not yet carried out, or "none"
  answer          \* answer[c]: the answer to the last command carried out

mailVars == <<box, who, asked, answer>>

MailInit ==
  /\ box \subseteq Records
  /\ who = [c \in Clients |-> NoPhone]
  /\ asked = [c \in Clients |-> "none"]
  /\ answer = [c \in Clients |-> {}]

\* A connection opens (under no name yet) or introduces itself.
Hello(c) ==
  /\ asked[c] = "none"
  /\ \E p \in Phones \cup {NoPhone} : who' = [who EXCEPT ![c] = p]
  /\ answer' = [answer EXCEPT ![c] = {}]
  /\ UNCHANGED <<box, asked>>

\* A command arrives.
Ask(c) ==
  /\ asked[c] = "none"
  /\ \E command \in {"post", "view", "purge"} : asked' = [asked EXCEPT ![c] = command]
  /\ answer' = [answer EXCEPT ![c] = {}]
  /\ UNCHANGED <<box, who>>

\* The command asked for is carried out with the given answer.
CarryOut(c, command, reply) ==
  /\ asked[c] = command
  /\ asked' = [asked EXCEPT ![c] = "none"]
  /\ answer' = [answer EXCEPT ![c] = reply]
  /\ UNCHANGED who

\* One new record is stored.
Post(c) ==
  /\ CarryOut(c, "post", {})
  /\ \E r \in box' \ box : r \in Records /\ box' = box \cup {r}

\* The answer is all the mail addressed to the caller.
View(c) ==
  /\ CarryOut(c, "view", {r \in box : IsFor(r, who[c])})
  /\ UNCHANGED box

\* The caller is given everything it wrote, and exactly that is deleted.
Purge(c) ==
  /\ CarryOut(c, "purge", {r \in box : IsFrom(r, who[c])})
  /\ box' = {r \in box : ~IsFrom(r, who[c])}

MailNext == \E c \in Clients : Hello(c) \/ Ask(c) \/ Post(c) \/ View(c) \/ Purge(c)

MailSpec == MailInit /\ [][MailNext]_mailVars
==============================================================================
