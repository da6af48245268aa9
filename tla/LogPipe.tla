------------------------------- MODULE LogPipe -------------------------------
(***************************************************************************)
(* The log of one runtime: supervisor.Start, the detached log proxy and    *)
(* redact.Copy, against the processes that write, die and are killed.      *)
(*                                                                         *)
(* The proxy ends when the last write end of the pipe is closed, so who    *)
(* holds one decides: the CLI until Start closes its copy, the runtime,    *)
(* and every process the runtime forks, those in sessions of their own     *)
(* included, which no kill of the process group reaches.                   *)
(***************************************************************************)
EXTENDS Naturals, Sequences, SequencesExt

CONSTANTS
  Cli,        \* the process in supervisor.Start
  Proxy,      \* the log proxy
  Main,       \* the runtime process
  Forked,     \* the processes it may fork
  Loner,      \* those of them that leave its session
  Text,       \* kinds of lines it writes: of "plain", "secret", "long"
  Capacity,   \* lines the pipe holds
  MaxLines,   \* bound on the lines written
  Faults      \* what may go wrong: a subset of {"open", "disk"}

Member == {Main} \cup (Forked \ Loner)   \* the process group a destroy kills

ASSUME LogPipeAssumption ==
  /\ Loner \subseteq Forked
  /\ Cli # Proxy /\ Cli # Main /\ Proxy # Main
  /\ {Cli, Proxy, Main} \cap Forked = {}
  /\ Text \subseteq {"plain", "secret", "long"}
  /\ Capacity \in Nat \ {0} /\ MaxLines \in Nat

VARIABLES
  start,    \* where supervisor.Start is
  proxy,    \* what the proxy does, or how it ended
  writers,  \* the processes that hold the write end
  pipe,     \* lines written and not yet scanned
  held,     \* the line between Scan and Fprintln, if any
  log,      \* the lines in the file the proxy opened
  linked,   \* that file is still in the log directory
  sent,     \* history: the lines the pipe accepted, in order
  unheard   \* history: the processes whose write found no reader

vars == <<start, proxy, writers, pipe, held, log, linked, sent, unheard>>

Line == [by : {Main} \cup Forked, text : {"plain", "secret", "long", "redacted"}]

\* redact.Line, by what the reader of the log must not see.
Redacted(line) ==
  IF line.text = "secret" THEN [line EXCEPT !.text = "redacted"] ELSE line

Init ==
  /\ start = "begin" /\ proxy = "none" /\ writers = {}
  /\ pipe = <<>> /\ held = <<>> /\ log = <<>> /\ linked = FALSE
  /\ sent = <<>> /\ unheard = {}

Reading == proxy \in {"opening", "reading"}   \* somebody has the read end

-----------------------------------------------------------------------------
(* supervisor.Start *)

\* Mutant: the helper inherits the write end too.
ProxySharesPipe ==
  /\ start = "begin"
  /\ start' = "piped" /\ proxy' = "opening" /\ writers' = {Cli, Proxy}
  /\ UNCHANGED <<pipe, held, log, linked, sent, unheard>>

\* startLogProxy: the pipe, the helper with the read end alone.
StartProxy ==
  /\ start = "begin"
  /\ start' = "piped" /\ proxy' = "opening" /\ writers' = {Cli}
  /\ UNCHANGED <<pipe, held, log, linked, sent, unheard>>

\* cmd.Start: the runtime has the write end as stdout and stderr.
StartRuntime ==
  /\ start = "piped"
  /\ start' = "spawned" /\ writers' = writers \cup {Main}
  /\ UNCHANGED <<proxy, pipe, held, log, linked, sent, unheard>>

\* The CLI closes its copy: after a failed cmd.Start, or as Start goes on.
CloseWriter ==
  /\ \/ start = "piped" /\ start' = "failed"
     \/ start = "spawned" /\ start' = "started"
  /\ writers' = writers \ {Cli}
  /\ UNCHANGED <<proxy, pipe, held, log, linked, sent, unheard>>

\* The processes an interrupt at the terminal reaches: Setsid keeps the rest
\* out.  Mutant: the helper stays in the CLI's group.
ForegroundWithProxy == {Cli, Proxy}

Foreground == {Cli}

Interrupt ==
  /\ start \in {"piped", "spawned"}
  /\ start' = "killed" /\ writers' = writers \ Foreground
  /\ proxy' = IF Proxy \in Foreground THEN "killed" ELSE proxy
  /\ UNCHANGED <<pipe, held, log, linked, sent, unheard>>

-----------------------------------------------------------------------------
(* The runtime's processes, and the destroy that ends them *)

Write(w, text) ==
  /\ w \in writers \ {Cli, Proxy} /\ Reading
  /\ Len(pipe) < Capacity /\ Len(sent) < MaxLines
  /\ pipe' = Append(pipe, [by |-> w, text |-> text])
  /\ sent' = Append(sent, [by |-> w, text |-> text])
  /\ UNCHANGED <<start, proxy, writers, held, log, linked, unheard>>

\* No reader: EPIPE, of which the process may die.
WriteUnheard(w) ==
  /\ w \in writers \ {Cli, Proxy} /\ ~Reading
  /\ unheard' = unheard \cup {w}
  /\ writers' \in {writers, writers \ {w}}
  /\ UNCHANGED <<start, proxy, pipe, held, log, linked, sent>>

Fork(w) ==
  /\ Main \in writers /\ w \in Forked \ writers
  /\ writers' = writers \cup {w}
  /\ UNCHANGED <<start, proxy, pipe, held, log, linked, sent, unheard>>

Exit(w) ==
  /\ w \in writers \ {Cli, Proxy}
  /\ writers' = writers \ {w}
  /\ UNCHANGED <<start, proxy, pipe, held, log, linked, sent, unheard>>

\* The CLI is out of the pipe's way, and another command may come.
Launched == start \in {"started", "failed", "killed"}

\* kill(-pgid, SIGKILL) by Stop, or by Start when it captured no identity.
KillGroup ==
  /\ Launched /\ writers \cap Member # {}
  /\ writers' = writers \ Member
  /\ UNCHANGED <<start, proxy, pipe, held, log, linked, sent, unheard>>

\* removeOwnedData, once the group is gone.
RemoveLog ==
  /\ Launched /\ linked
  /\ writers \cap Member = {}
  /\ linked' = FALSE
  /\ UNCHANGED <<start, proxy, writers, pipe, held, log, sent, unheard>>

-----------------------------------------------------------------------------
(* The proxy: runLogProxy and redact.Copy *)

OpenLog ==
  /\ proxy = "opening"
  /\ \/ proxy' = "reading" /\ linked' = TRUE
     \/ "open" \in Faults /\ proxy' = "failed" /\ UNCHANGED linked
  /\ UNCHANGED <<start, writers, pipe, held, log, sent, unheard>>

Scan ==
  /\ proxy = "reading" /\ held = <<>> /\ pipe # <<>>
  /\ Head(pipe).text # "long"
  /\ held' = <<Head(pipe)>> /\ pipe' = Tail(pipe)
  /\ UNCHANGED <<start, proxy, writers, log, linked, sent, unheard>>

\* Mutant: the scanner's error is not noticed, the line never ends.
TooLongWaits == FALSE /\ UNCHANGED vars

\* More than a mebibyte without a newline: Scan ends with ErrTooLong.
TooLong ==
  /\ proxy = "reading" /\ held = <<>> /\ pipe # <<>>
  /\ Head(pipe).text = "long"
  /\ proxy' = "failed"
  /\ UNCHANGED <<start, writers, pipe, held, log, linked, sent, unheard>>

\* Mutant: the line is copied as it came.
WriteRaw ==
  /\ proxy = "reading" /\ held # <<>>
  /\ log' = Append(log, held[1]) /\ held' = <<>>
  /\ UNCHANGED <<start, proxy, writers, pipe, linked, sent, unheard>>

WriteLine ==
  /\ proxy = "reading" /\ held # <<>>
  /\ log' = Append(log, Redacted(held[1])) /\ held' = <<>>
  /\ UNCHANGED <<start, proxy, writers, pipe, linked, sent, unheard>>

\* The disk is full: Copy returns the error and the proxy exits.
WriteFails ==
  /\ "disk" \in Faults
  /\ proxy = "reading" /\ held # <<>>
  /\ proxy' = "failed"
  /\ UNCHANGED <<start, writers, pipe, held, log, linked, sent, unheard>>

\* The pipe is empty and nobody can write to it any more.
Eof ==
  /\ proxy = "reading" /\ held = <<>>
  /\ pipe = <<>> /\ writers = {}
  /\ proxy' = "ended"
  /\ UNCHANGED <<start, writers, pipe, held, log, linked, sent, unheard>>

-----------------------------------------------------------------------------
ProxyStep == OpenLog \/ Scan \/ TooLong \/ WriteLine \/ WriteFails \/ Eof
StartStep == StartProxy \/ StartRuntime \/ CloseWriter

Next ==
  \/ StartStep \/ Interrupt \/ KillGroup \/ RemoveLog \/ ProxyStep
  \/ \E w \in {Main} \cup Forked :
       Fork(w) \/ Exit(w) \/ WriteUnheard(w) \/ \E t \in Text : Write(w, t)

Spec == Init /\ [][Next]_vars

\* The CLI and the proxy are scheduled; nothing is asked of the runtime.
FairSpec == Spec /\ WF_vars(StartStep) /\ WF_vars(ProxyStep)

-----------------------------------------------------------------------------
TypeOK ==
  /\ start \in {"begin", "piped", "spawned", "started", "failed", "killed"}
  /\ proxy \in {"none", "opening", "reading", "ended", "failed"}
  /\ writers \subseteq {Cli, Main} \cup Forked
  /\ pipe \in Seq(Line) /\ held \in Seq(Line) /\ log \in Seq(Line)
  /\ linked \in BOOLEAN
  /\ sent \in Seq(Line)
  /\ unheard \subseteq {Main} \cup Forked

\* At every moment what the processes have written is what is in the file, in
\* the proxy's hands and in the pipe: no line is lost, doubled or overtaken,
\* whoever wrote it and whoever has died since; in the file each is redacted.
Conserved ==
  Reading =>
    log \o [i \in DOMAIN held |-> Redacted(held[i])]
        \o [i \in DOMAIN pipe |-> Redacted(pipe[i])]
      = [i \in DOMAIN sent |-> Redacted(sent[i])]

\* What is in the file is a redacted beginning of what was written, also after
\* the proxy has failed in the middle.
LogIsBeginning ==
  IsPrefix(log, [i \in DOMAIN sent |-> Redacted(sent[i])])

\* The last words of a runtime that is killed are in the log: a proxy that
\* ends at the end of file has written every line, and nobody is left to
\* write another.
LastWords ==
  proxy = "ended" => Len(log) = Len(sent) /\ writers = {} /\ unheard = {}

\* The file tells what was written: while the proxy reads, after it has failed
\* and when it has ended.
LogFaithful == TypeOK /\ Conserved /\ LogIsBeginning /\ LastWords

\* No process writes into the void unless the proxy has met an error of its own,
\* the disk's or the scanner's: no interrupt of the CLI, no kill of the group
\* and no exit of the runtime takes the reader from one that can still write.
HeardUnlessFailed == unheard # {} => proxy = "failed"

\* The proxy does not outlive its purpose: it ends once the last process that
\* could write is gone, the CLI's own copy of the write end included.
ProxyEnds ==
  (start # "begin" /\ writers \subseteq {Proxy}) ~> proxy \in {"ended", "failed"}

\* A runtime blocked on a full pipe is not blocked for good.
WriterUnblocked ==
  Len(pipe) = Capacity ~> (Len(pipe) < Capacity \/ ~Reading)

\* Claim: "the proxy persists until EOF" (a log_proxy.go comment).
PersistsUntilEof ==
  proxy \in {"ended", "failed"} => writers = {} /\ pipe = <<>>

=============================================================================
