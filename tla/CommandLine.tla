------------------------------ MODULE CommandLine ------------------------------
(***************************************************************************)
(* Commands of the command-line client, each a process of its own, and     *)
(* requests of other clients.  The processes share the session file of the *)
(* user, which a login and a logout replace by way of a temporary file, and *)
(* the sessions of the server.  LoginSessions models what the server does  *)
(* to make and to end a session; here it is one step.                      *)
(***************************************************************************)
EXTENDS CliCommands

CONSTANTS
  CliProcess,   \* processes; each runs one command
  MaxSessions   \* bound: sessions made

ASSUME CliSessions == MaxSessions \in Nat \ {0}

\* What a request comes to, and a request of a command.
Reply == [ok : BOOLEAN, done : BOOLEAN, marked : BOOLEAN]
CliCall == [open : BOOLEAN, session : {"none", "login", "logout"}, writes : BOOLEAN,
            replies : SUBSET Reply]


VARIABLES
  process,      \* what each process is doing
  sessionFile,  \* cli.json
  tempFile,     \* cli.json.tmp
  alive,        \* the sessions that are alive on the server
  made,         \* number of sessions made
  torn          \* history: two processes saved a session at the same time

callVars == <<process, sessionFile, tempFile, alive, made, torn>>

\* What a file may hold: a session, the defaults that a logout leaves, nothing,
\* or the end of a longer text after a shorter one.
NoFile == <<"absent">>
Defaults == <<"defaults">>
Blank == <<"empty">>
Mixed == <<"mixed">>
Saved(t) == <<"session", t>>

NoSession == 0

\* LoadSession: a file that is not there or cannot be parsed has no session.
LoadSession == IF Len(sessionFile) = 2 THEN sessionFile[2] ELSE NoSession

\* A text written from the beginning of a file over another one.
Over(old, new) == IF new = Defaults /\ old # Blank /\ old # Defaults THEN Mixed ELSE new

Stage(p, s) == process[p].at = s
Proceeds(p, s) == process' = [process EXCEPT ![p].at = s]

\* The process ends.  It must have changed something to succeed if the use case
\* of its last request succeeds only with a change.
Ended(p, code) ==
  LET line == process[p].line
  IN [at |-> "exited", code |-> code, changed |-> process[p].changed,
      dry |-> line.dry /\ line.command, gap |-> line.gap,
      must |-> ~line.dry /\ line.calls # <<>> /\ line.calls[Len(line.calls)].writes]

Exits(p, code) == process' = [process EXCEPT ![p] = Ended(p, code)]

-----------------------------------------------------------------------------
Running(p) == process[p].at \notin {"idle", "exited"}

\* Bound: of two commands that run at the same time one logs in or out, as no
\* others have anything in common.
ChangesSession(line) ==
  line.saves \/ \E i \in DOMAIN line.calls : line.calls[i].session \in {"login", "logout"}
Overlap(p, line) ==
  \A q \in CliProcess \ {p} :
    Running(q) => ChangesSession(line) \/ ChangesSession(process[q].line)

\* A command is typed and reads the session, from the file or, if it is set
\* there, from the environment.
Start(p) ==
  /\ Stage(p, "idle")
  /\ \E line \in Lines \cup OtherClients, t \in {LoadSession} \cup 1 .. made :
       /\ Overlap(p, line)
       /\ process' = [process EXCEPT ![p] =
            [at |-> "send", line |-> line, todo |-> line.calls, token |-> t, changed |-> FALSE,
             reply |-> Unauthorized]]
  /\ UNCHANGED <<sessionFile, tempFile, alive, made, torn>>

\* The server answers, to a login with a session that it made or found.
Answers(p, reply, t) ==
  process' = [process EXCEPT ![p].at = "reply", ![p].reply = reply, ![p].token = t,
                             ![p].changed = @ \/ reply.done]

LoginServed(p, reply) ==
  \/ /\ reply.done
     /\ alive = {}
     /\ made < MaxSessions
     /\ made' = made + 1
     /\ alive' = {made'}
     /\ Answers(p, reply, made')
  \/ /\ reply.ok /\ ~reply.done
     /\ \E t \in alive : Answers(p, reply, t)
     /\ UNCHANGED <<alive, made>>
  \/ /\ ~reply.ok /\ ~reply.done
     /\ Answers(p, reply, process[p].token)
     /\ UNCHANGED <<alive, made>>

LogoutServed(p, reply) ==
  /\ alive' = IF reply.done THEN alive \ {process[p].token} ELSE alive
  /\ Answers(p, reply, process[p].token)
  /\ UNCHANGED made

\* The next request passes the middleware and its handler.  Without a session
\* the client sends none that needs one, which comes to the same.
Serve(p) ==
  /\ Stage(p, "send")
  /\ process[p].todo # <<>>
  /\ LET call == Head(process[p].todo)
     IN \E reply \in IF call.open \/ process[p].token \in alive THEN call.replies
                     ELSE {Unauthorized} :
          CASE call.session = "login" -> LoginServed(p, reply)
            [] call.session = "logout" -> LogoutServed(p, reply)
            [] OTHER -> Answers(p, reply, process[p].token) /\ UNCHANGED <<alive, made>>
  /\ UNCHANGED <<sessionFile, tempFile, torn>>

\* doJSON: the next request, or the end of the command; nothing is sent twice.
\* A login and a logout save the session before they end.
Heard(p) ==
  /\ \/ Stage(p, "reply")
     \/ Stage(p, "send") /\ process[p].todo = <<>>
  /\ LET left == process[p].todo
         heard == process[p].reply
     IN \/ left = <<>> /\ Exits(p, 0)
        \/ left # <<>> /\ ~heard.ok /\ Exits(p, 1)
        \/ /\ Len(left) > 1 /\ heard.ok
           /\ process' = [process EXCEPT ![p].at = "send", ![p].todo = Tail(left)]
        \/ Len(left) = 1 /\ heard.ok /\ process[p].line.saves /\ Proceeds(p, "save")
        \/ Len(left) = 1 /\ heard.ok /\ ~process[p].line.saves /\ Exits(p, 0)
  /\ UNCHANGED <<sessionFile, tempFile, alive, made, torn>>

\* The command is killed, its request or its reply is lost, or a write fails.
Stop(p) ==
  /\ Running(p)
  /\ Exits(p, 1)
  /\ UNCHANGED <<sessionFile, tempFile, alive, made, torn>>

-----------------------------------------------------------------------------
(* SaveSession. *)

Saving == {"write-temp", "write-cli", "write-lost", "rename"}

\* The temporary file is opened, and emptied if it is there ...
SaveBegin(p) ==
  /\ Stage(p, "save")
  /\ tempFile' = Blank
  /\ Proceeds(p, "write-temp")
  /\ torn' = (torn \/ \E q \in CliProcess \ {p} : process[q].at \in Saving)
  /\ UNCHANGED <<sessionFile, alive, made>>

\* What a command saves: a logout has no session.
Text(p) ==
  IF process[p].todo[1].session = "login" THEN Saved(process[p].token) ELSE Defaults

\* ... and written, under whatever name it has by then ...
SaveWrite(p) ==
  /\ \/ /\ Stage(p, "write-temp")
        /\ tempFile' = Over(tempFile, Text(p))
        /\ UNCHANGED sessionFile
     \/ /\ Stage(p, "write-cli")
        /\ sessionFile' = Over(sessionFile, Text(p))
        /\ UNCHANGED tempFile
     \/ /\ Stage(p, "write-lost")
        /\ UNCHANGED <<sessionFile, tempFile>>
  /\ Proceeds(p, "rename")
  /\ UNCHANGED <<alive, made, torn>>

\* ... and renamed.  Who has a file open writes where it is now.
SaveRename(p) ==
  /\ Stage(p, "rename")
  /\ IF tempFile = NoFile
     THEN Exits(p, 1) /\ UNCHANGED <<sessionFile, tempFile>>
     ELSE /\ sessionFile' = tempFile
          /\ tempFile' = NoFile
          /\ process' = [q \in CliProcess |->
               CASE q = p -> Ended(p, 0)
                 [] Stage(q, "write-temp") -> [process[q] EXCEPT !.at = "write-cli"]
                 [] Stage(q, "write-cli") -> [process[q] EXCEPT !.at = "write-lost"]
                 [] OTHER -> process[q]]
  /\ UNCHANGED <<alive, made, torn>>

-----------------------------------------------------------------------------
\* The user has logged in before, or not.
CallsStart ==
  /\ process = [p \in CliProcess |-> [at |-> "idle"]]
  /\ \/ sessionFile = NoFile /\ alive = {} /\ made = 0
     \/ sessionFile = Saved(1) /\ alive = {1} /\ made = 1
  /\ tempFile = NoFile
  /\ torn = FALSE

CallsNext ==
  \E p \in CliProcess :
    \/ Start(p)
    \/ Serve(p)
    \/ Heard(p)
    \/ Stop(p)
    \/ SaveBegin(p)
    \/ SaveWrite(p)
    \/ SaveRename(p)

CallsSpec == CallsStart /\ [][CallsNext]_callVars

-----------------------------------------------------------------------------
(* Properties. *)

Content == {NoFile, Defaults, Blank, Mixed} \cup {Saved(t) : t \in 1 .. made}

CallsTypeOK ==
  /\ \A p \in CliProcess :
       /\ process[p].at \in {"idle", "send", "reply", "save", "exited"} \cup Saving
       /\ process[p].at \notin {"idle", "exited"} =>
            /\ process[p].token \in 0 .. made
            /\ process[p].reply \in Reply
  /\ sessionFile \in Content
  /\ tempFile \in Content \ {Mixed} \/ torn
  /\ alive \subseteq 1 .. made
  /\ made \in 0 .. MaxSessions

\* The flag of a dry run reaches every layer, or the reply does not claim it: a
\* request whose reply is marked as a dry run has changed nothing, and a command
\* with --dry-run changes nothing, but for the two requests that do not know the
\* flag.  The other way round, a command without it that succeeds has made a
\* change, unless its use case also succeeds when there is nothing to do: no
\* layer simulates what nobody asked it to.
AnswersTrue ==
  \A p \in CliProcess :
    /\ Stage(p, "reply") =>
         (process[p].reply.marked => ~process[p].reply.done /\ process[p].line.dry)
    /\ Stage(p, "exited") =>
         /\ process[p].dry /\ process[p].gap = {} => ~process[p].changed
         /\ process[p].must /\ process[p].code = 0 => process[p].changed

\* A command killed at any point leaves a session file that can be read: a
\* login and a logout replace it as a whole, unless two of them do so at the
\* same time.
SessionFileWhole == ~torn => sessionFile \notin {Blank, Mixed}

\* A command that succeeds with --dry-run has changed nothing.
DryRunHarmless ==
  \A p \in CliProcess :
    Stage(p, "exited") => ~(process[p].dry /\ process[p].code = 0 /\ process[p].changed)
=============================================================================
