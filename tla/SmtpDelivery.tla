----------------------------- MODULE SmtpDelivery -----------------------------
(***************************************************************************)
(* One e-mail on its way to the mail server: the conversation of the SMTP  *)
(* client, attempt by attempt, the class of its errors, and what the       *)
(* processor makes of them.  EmailDelivery has one step, Send, for all of  *)
(* it.  The server answers each command once, may say goodbye (421)        *)
(* whenever it likes, and the connection may fail anywhere.                *)
(***************************************************************************)
EXTENDS Integers, Sequences, SequencesExt

CONSTANT MaxSends   \* max_attempts

ASSUME SmtpAssumption == MaxSends \in Nat \ {0}

VARIABLES
  smtp,      \* the configuration, and whether the server offers STARTTLS
  mail,      \* the delivery: attempts begun, status, and the last error
  command,   \* what the client waits for, or None
  owed,      \* the server has not answered it yet
  link,      \* the connection: none, plain or tls
  buffer,    \* answers the client has not read
  accepted,  \* attempts in which the server accepted the mail (ghost)
  doubtful,  \* of these, the ones that did not end as succeeded (ghost)
  clear      \* what was sent over a plain connection (ghost)

smtpVars == <<smtp, mail, command, owed, link, buffer, accepted, doubtful, clear>>

None == "none"
Commands == {"connect", "greeting", "hello", "starttls", "upgrade", "helloAgain", "login",
             "username", "password", "from", "recipient", "data", "content", "message", "quit"}
Transient == 421
Permanent == 550

\* The answers a command is content with.
Expected(c) ==
  CASE c \in {"greeting", "starttls"} -> {220}
    [] c \in {"login", "username"} -> {334}
    [] c = "password" -> {235}
    [] c = "recipient" -> {250, 251}
    [] c = "data" -> {354}
    [] c = "quit" -> {221}
    [] OTHER -> {250}

\* Mutant: every answer but a permanent one will do.
AnyPositive(c, code) == code < 500

IsExpected(c, code) == code \in Expected(c)

Fine == [code |-> "OK", retryable |-> FALSE]
Failure(code, retryable) == [code |-> code, retryable |-> retryable]
ResponseError(code) ==
  Failure(IF code \in 400 .. 499 THEN "SMTP_TRANSIENT_RESPONSE" ELSE "SMTP_PERMANENT_RESPONSE",
          code \in 400 .. 499)
TimeoutError(c) == Failure("SMTP_TIMEOUT", c # "upgrade")

\* classifySmtpError: by what the error's code contains; EHOSTUNREACH and the
\* like match none of its patterns.
SocketErrors == {Failure("SMTP_TLS_VALIDATION_FAILED", FALSE),
                 Failure("SMTP_NETWORK_ERROR", TRUE), Failure("SMTP_PROTOCOL_ERROR", FALSE)}

-----------------------------------------------------------------------------
(* The order of the commands.                                               *)

AfterHello == IF smtp.credentials THEN "login" ELSE "from"

\* Without STARTTLS only a server on this host may do, if the configuration says so.
TlsIsMissing == ~smtp.secure /\ ~smtp.offersTls /\ ~smtp.local

Following(c) ==
  CASE c = "greeting" -> "hello"
    [] c = "hello" -> IF ~smtp.secure /\ smtp.offersTls THEN "starttls" ELSE AfterHello
    [] c = "starttls" -> "upgrade"
    [] c = "helloAgain" -> AfterHello
    [] c = "login" -> "username"
    [] c = "username" -> "password"
    [] c = "password" -> "from"
    [] c = "from" -> "recipient"
    [] c = "recipient" -> "data"
    [] c = "data" -> "content"
    [] c = "message" -> "quit"

Secrets == {"username", "password", "content"}
SentInClear(c) == IF link = "plain" /\ c \in Secrets THEN {c} ELSE {}

\* The connection is closed, the result recorded: another attempt follows
\* after a delay, if the error allows it and there are attempts left.
Ends(error) ==
  /\ command' = None /\ link' = None /\ buffer' = <<>> /\ owed' = FALSE
  /\ mail' = [mail EXCEPT !.error = error,
                          !.status = CASE error.code = "OK" -> "succeeded"
                                       [] error.retryable /\ mail.attempt < MaxSends -> "pending"
                                       [] OTHER -> "failed"]
  /\ doubtful' = IF error.code # "OK" THEN doubtful \cup (accepted \cap {mail.attempt})
                 ELSE doubtful
  /\ UNCHANGED <<smtp, accepted, clear>>

Sends(c) == /\ command' = c /\ owed' = (c \notin {"upgrade", "content"})
            /\ clear' = clear \cup SentInClear(c)

-----------------------------------------------------------------------------
\* Claimed, and the content decrypted; a content that cannot be is given up.
BeginSend(decrypts) ==
  /\ mail.status = "pending"
  /\ mail' = [mail EXCEPT !.attempt = @ + 1, !.status = IF decrypts THEN "running" ELSE "failed",
                          !.error = IF decrypts THEN @ ELSE Failure("CONTENT_DECRYPTION_FAILED", FALSE)]
  /\ command' = IF decrypts THEN "connect" ELSE None
  /\ UNCHANGED <<smtp, owed, link, buffer, accepted, doubtful, clear>>

Connected ==
  /\ command = "connect" /\ command' = "greeting" /\ owed' = TRUE
  /\ link' = IF smtp.secure THEN "tls" ELSE "plain"
  /\ UNCHANGED <<smtp, mail, buffer, accepted, doubtful, clear>>

\* The server answers what it was asked; 250 after the message is acceptance.
Answers(code) ==
  /\ owed /\ code \in Expected(command) \cup {Transient, Permanent}
  /\ owed' = FALSE /\ buffer' = Append(buffer, code)
  /\ accepted' = IF command = "message" /\ code = 250 THEN accepted \cup {mail.attempt}
                 ELSE accepted
  /\ UNCHANGED <<smtp, mail, command, link, doubtful, clear>>

SaysGoodbye ==
  /\ link # None /\ ~owed /\ ~Contains(buffer, Transient)
  /\ buffer' = Append(buffer, Transient)
  /\ UNCHANGED <<smtp, mail, command, owed, link, accepted, doubtful, clear>>

\* expect: the oldest answer that was not read is taken for the command's,
\* though it may have come before the command was sent.
ReadAnswer ==
  /\ command \notin {None, "connect", "upgrade", "content"} /\ buffer # <<>>
  /\ LET code == Head(buffer) IN
     CASE ~IsExpected(command, code) -> Ends(ResponseError(code))
       [] OTHER ->
            CASE command = "quit" -> Ends(Fine)
              [] command = "hello" /\ TlsIsMissing -> Ends(Failure("SMTP_STARTTLS_REQUIRED", FALSE))
              [] OTHER -> /\ buffer' = Tail(buffer) /\ Sends(Following(command))
                          /\ UNCHANGED <<smtp, mail, link, accepted, doubtful>>

\* What is in the buffer stays there.
Upgraded ==
  /\ command = "upgrade" /\ Sends("helloAgain") /\ link' = "tls"
  /\ UNCHANGED <<smtp, mail, buffer, accepted, doubtful>>

\* writeData has resolved.
Written == /\ command = "content" /\ Sends("message")
           /\ UNCHANGED <<smtp, mail, link, buffer, accepted, doubtful>>

TimesOut == /\ command \notin {None, "content"} /\ buffer = <<>>
            /\ Ends(TimeoutError(command))

Fails(error) ==
  /\ command \notin {None, "content"}
  /\ error.code = "SMTP_TLS_VALIDATION_FAILED" =>
       (command = "upgrade" \/ (command = "connect" /\ smtp.secure))
  /\ error.code = "SMTP_PROTOCOL_ERROR" => command = "connect"
  /\ Ends(error)

\* The process exits, or the connection fails while the message is written,
\* when nobody listens for errors; later the claim is found stale.
Exits ==
  /\ command # None
  /\ command' = None /\ link' = None /\ buffer' = <<>> /\ owed' = FALSE
  /\ mail' = [mail EXCEPT !.error = Failure("EMAIL_DELIVERY_WORKER_TIMEOUT", TRUE),
                          !.status = IF mail.attempt < MaxSends THEN "pending" ELSE "failed"]
  /\ doubtful' = doubtful \cup (accepted \cap {mail.attempt})
  /\ UNCHANGED <<smtp, accepted, clear>>

-----------------------------------------------------------------------------
SmtpInit ==
  /\ smtp \in [secure : BOOLEAN, local : BOOLEAN, credentials : BOOLEAN, offersTls : BOOLEAN]
  /\ mail = [attempt |-> 0, status |-> "pending", error |-> Fine]
  /\ command = None /\ link = None /\ buffer = <<>> /\ owed = FALSE
  /\ accepted = {} /\ doubtful = {} /\ clear = {}

Codes == (UNION {Expected(c) : c \in Commands}) \cup {Transient, Permanent}

SmtpNext ==
  \/ \E decrypts \in BOOLEAN : BeginSend(decrypts)
  \/ Connected \/ SaysGoodbye \/ ReadAnswer \/ Upgraded \/ Written \/ TimesOut \/ Exits
  \/ \E code \in Codes : Answers(code)
  \/ \E error \in SocketErrors : Fails(error)

SmtpSpec == SmtpInit /\ [][SmtpNext]_smtpVars

-----------------------------------------------------------------------------
(* Properties.                                                              *)

SmtpTypeOK ==
  /\ mail.attempt \in 0 .. MaxSends /\ mail.status \in {"pending", "running", "succeeded", "failed"}
  /\ command \in Commands \cup {None} /\ owed \in BOOLEAN
  /\ link \in {None, "plain", "tls"} /\ buffer \in Seq(Codes)
  /\ accepted \subseteq 1 .. MaxSends /\ doubtful \subseteq accepted

\* A delivery that succeeded was accepted by the server, in that attempt.
SuccessIsAccepted == mail.status = "succeeded" => mail.attempt \in accepted

\* The server gets the mail a second time only after an attempt that it had
\* accepted and the worker does not count: the answer or the worker was lost,
\* or the goodbye was not answered as it should be.
DuplicatesAreDoubtful == \A a \in accepted : a \in doubtful \/ a = mail.attempt

\* Given up is what the server or the configuration refuses for good, and what
\* no attempt is left for.
GivenUpIsFinal ==
  mail.status = "failed" => mail.attempt = MaxSends \/ ~mail.error.retryable

\* Credentials and the message travel in the clear to this host only, and only
\* if the configuration says so.
NothingInTheClear == clear # {} => smtp.local /\ ~smtp.secure /\ ~smtp.offersTls

\* The conversation keeps its promises.
MailIsSound ==
  /\ SmtpTypeOK /\ SuccessIsAccepted /\ DuplicatesAreDoubtful /\ GivenUpIsFinal
  /\ NothingInTheClear
=============================================================================
