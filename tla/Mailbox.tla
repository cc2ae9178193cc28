------------------------------ MODULE Mailbox ------------------------------
(*****************************************************************************)
(* What the ingestion path promises to the budgeting app, with every         *)
(* transaction and every network call collapsed to one atomic step: an       *)
(* email is imported at most once, only while its alias is active, only      *)
(* within the rate limit and never as the second copy of a Message-ID; the   *)
(* alias counts the import and announces its first one in the same step;     *)
(* erasing a user closes the user's aliases and schedules every email        *)
(* already imported through them.  Ingestion implements this module.         *)
(*****************************************************************************)
EXTENDS Integers, FiniteSets

CONSTANTS Messages, Aliases, AliasOf, MidOf, NoMessageId, RateLimit

VARIABLES aliasState, received, firstEvents, row, stamped, recent

mailboxVars == <<aliasState, received, firstEvents, row, stamped, recent>>

MailboxInit ==
  /\ aliasState = [a \in Aliases |-> "absent"]
  /\ received = [a \in Aliases |-> 0]
  /\ firstEvents = [a \in Aliases |-> 0]
  /\ row = [m \in Messages |-> "none"]
  /\ stamped = {}
  /\ recent = {}

Open(a) ==
  /\ aliasState[a] = "absent"
  /\ aliasState' = [aliasState EXCEPT ![a] = "active"]
  /\ UNCHANGED <<received, firstEvents, row, stamped, recent>>

Close(a) ==
  /\ aliasState[a] = "active"
  /\ aliasState' = [aliasState EXCEPT ![a] = "inactive"]
  /\ UNCHANGED <<received, firstEvents, row, stamped, recent>>

(* A message may enter the mailbox: it is new by key and by Message-ID, its  *)
(* alias is active and has budget left.                                      *)
Admissible(m) ==
  /\ row[m] = "none"
  /\ aliasState[AliasOf[m]] = "active"
  /\ MidOf[m] # NoMessageId =>
       \A n \in Messages :
         AliasOf[n] = AliasOf[m] /\ MidOf[n] = MidOf[m] => row[n] = "none"
  /\ RateLimit > 0 =>
       Cardinality({n \in recent : AliasOf[n] = AliasOf[m]}) < RateLimit

Import(m) ==
  LET a == AliasOf[m]
  IN  /\ Admissible(m)
      /\ row' = [row EXCEPT ![m] = "imported"]
      /\ received' = [received EXCEPT ![a] = received[a] + 1]
      /\ firstEvents' = IF received[a] = 0
                        THEN [firstEvents EXCEPT ![a] = firstEvents[a] + 1]
                        ELSE firstEvents
      /\ recent' = recent \cup {m}
      /\ UNCHANGED <<aliasState, stamped>>

(* The raw object is gone: the row says so and nothing is counted.           *)
ImportMissing(m) ==
  /\ Admissible(m)
  /\ row' = [row EXCEPT ![m] = "error"]
  /\ recent' = recent \cup {m}
  /\ UNCHANGED <<aliasState, received, firstEvents, stamped>>

Age(m) ==
  /\ recent' = recent \ {m}
  /\ UNCHANGED <<aliasState, received, firstEvents, row, stamped>>

Erase(S) ==
  /\ \A a \in S : aliasState[a] # "absent"
  /\ aliasState' = [a \in Aliases |-> IF a \in S THEN "inactive"
                                      ELSE aliasState[a]]
  /\ stamped' = stamped \cup
                  {m \in Messages : row[m] # "none" /\ AliasOf[m] \in S}
  /\ UNCHANGED <<received, firstEvents, row, recent>>

MailboxNext ==
  \/ \E a \in Aliases : Open(a) \/ Close(a)
  \/ \E m \in Messages : Import(m) \/ ImportMissing(m) \/ Age(m)
  \/ \E S \in SUBSET Aliases : Erase(S)

MailboxSpec == MailboxInit /\ [][MailboxNext]_mailboxVars
=============================================================================
