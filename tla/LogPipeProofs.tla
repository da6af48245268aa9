---------------------------- MODULE LogPipeProofs ----------------------------
(***************************************************************************)
(* Theorems about LogPipe for any processes, any pipe and any length.      *)
(***************************************************************************)
EXTENDS LogPipe, SequenceTheorems, TLAPS

\* Who holds a write end, by where Start is and how the proxy ended.
Ends ==
  /\ start = "begin" => proxy = "none" /\ writers = {}
  /\ start # "begin" => proxy # "none"
  /\ start \in {"piped", "spawned"} => Cli \in writers
  /\ proxy = "ended" => writers = {}

\* Line by line, where each line sent is: in the file, in the proxy's hands or
\* in the pipe, in this order, and nowhere else while the proxy reads.
InTransit ==
  /\ Len(held) <= 1
  /\ Len(log) + Len(held) + Len(pipe) = Len(sent)
  /\ \A i \in 1 .. Len(log) : log[i] = Redacted(sent[i])
  /\ \A i \in 1 .. Len(held) : held[i] = sent[Len(log) + i]
  /\ \A i \in 1 .. Len(pipe) : pipe[i] = sent[Len(log) + Len(held) + i]
  /\ proxy = "none" => sent = <<>>
  /\ proxy = "ended" => held = <<>> /\ pipe = <<>>

\* The inductive invariant.
IInv == TypeOK /\ Ends /\ InTransit /\ HeardUnlessFailed

LEMMA InitIInv == Init => IInv
<1> SUFFICES ASSUME Init PROVE IInv
  OBVIOUS
<1>1. /\ pipe = <<>> /\ held = <<>> /\ log = <<>> /\ sent = <<>>
      /\ writers = {} /\ unheard = {} /\ linked = FALSE
      /\ start = "begin" /\ proxy = "none"
  BY DEF Init
<1>e. <<>> \in Seq(Line)
  OBVIOUS
<1>2. TypeOK
  BY <1>1, <1>e DEF TypeOK
<1>3. InTransit
  BY <1>1 DEF InTransit
<1> QED BY <1>1, <1>2, <1>3 DEF IInv, Ends, HeardUnlessFailed

\* Redacting a line gives a line.
LEMMA RedactedIsLine == \A line \in Line : Redacted(line) \in Line
<1> SUFFICES ASSUME NEW line \in Line PROVE Redacted(line) \in Line
  OBVIOUS
<1>1. [line EXCEPT !.text = "redacted"] \in Line
  BY DEF Line
<1> QED BY <1>1 DEF Redacted

\* The steps that touch no line: Start, the ends of processes, the opening and
\* the end of the proxy.
LEMMA NoLineMoves ==
  ASSUME InTransit, UNCHANGED <<pipe, held, log, sent>>,
         proxy' = "none" => proxy = "none",
         proxy' = "ended" => held = <<>> /\ pipe = <<>>
  PROVE  InTransit'
BY DEF InTransit

LEMMA IInvStep == IInv /\ [Next]_vars => IInv'
<1> SUFFICES ASSUME IInv, [Next]_vars PROVE IInv'
  OBVIOUS
<1>t. /\ start \in {"begin", "piped", "spawned", "started", "failed", "killed"}
      /\ proxy \in {"none", "opening", "reading", "ended", "failed"}
      /\ writers \subseteq {Cli, Main} \cup Forked
      /\ pipe \in Seq(Line) /\ held \in Seq(Line) /\ log \in Seq(Line)
      /\ linked \in BOOLEAN /\ sent \in Seq(Line)
      /\ unheard \subseteq {Main} \cup Forked
      /\ Cli # Proxy /\ Cli # Main /\ Proxy # Main
      /\ {Cli, Proxy, Main} \cap Forked = {} /\ Loner \subseteq Forked
      /\ Text \subseteq {"plain", "secret", "long"}
  BY LogPipeAssumption DEF IInv, TypeOK
<1>i. Ends /\ InTransit /\ HeardUnlessFailed
  BY DEF IInv
<1>n. /\ Len(pipe) \in Nat /\ Len(held) \in Nat
      /\ Len(log) \in Nat /\ Len(sent) \in Nat
  BY <1>t, LenProperties
<1>a. Len(held) <= 1 /\ Len(log) + Len(held) + Len(pipe) = Len(sent)
  BY <1>i DEF InTransit
<1>b. Len(held) = 0 \/ Len(held) = 1
  <2>1. \A n \in Nat : n <= 1 => n = 0 \/ n = 1
    OBVIOUS
  <2>2. Len(held) \in Nat /\ Len(held) <= 1
    BY <1>n, <1>a
  <2> QED BY <2>1, <2>2
<1>1. CASE StartProxy
  <2>1. InTransit'
    BY <1>1, <1>i, NoLineMoves DEF StartProxy
  <2> QED BY <1>t, <1>i, <1>1, <2>1
     DEF StartProxy, IInv, TypeOK, Ends, HeardUnlessFailed
<1>2. CASE StartRuntime
  <2>1. InTransit'
    BY <1>2, <1>i, NoLineMoves DEF StartRuntime, InTransit
  <2> QED BY <1>t, <1>i, <1>2, <2>1
     DEF StartRuntime, IInv, TypeOK, Ends, HeardUnlessFailed
<1>3. CASE CloseWriter
  <2>1. InTransit'
    BY <1>3, <1>i, NoLineMoves DEF CloseWriter, InTransit
  <2> QED BY <1>t, <1>i, <1>3, <2>1
     DEF CloseWriter, IInv, TypeOK, Ends, HeardUnlessFailed
<1>4. CASE Interrupt
  <2>1. proxy' = proxy
    BY <1>t, <1>4 DEF Interrupt, Foreground
  <2>2. InTransit'
    BY <1>4, <1>i, <2>1, NoLineMoves DEF Interrupt, InTransit
  <2> QED BY <1>t, <1>i, <1>4, <2>1, <2>2
     DEF Interrupt, Foreground, IInv, TypeOK, Ends, HeardUnlessFailed
<1>5. CASE KillGroup
  <2>1. InTransit'
    BY <1>5, <1>i, NoLineMoves DEF KillGroup, InTransit
  <2> QED BY <1>t, <1>i, <1>5, <2>1
     DEF KillGroup, Launched, IInv, TypeOK, Ends, HeardUnlessFailed
<1>6. CASE RemoveLog
  <2>1. InTransit'
    BY <1>6, <1>i, NoLineMoves DEF RemoveLog, InTransit
  <2> QED BY <1>t, <1>i, <1>6, <2>1
     DEF RemoveLog, IInv, TypeOK, Ends, HeardUnlessFailed
<1>7. CASE OpenLog
  <2>1. InTransit'
    BY <1>7, <1>i, NoLineMoves DEF OpenLog, InTransit
  <2> QED BY <1>t, <1>i, <1>7, <2>1
     DEF OpenLog, IInv, TypeOK, Ends, HeardUnlessFailed
<1>8. CASE Scan
  <2>1. /\ Head(pipe) \in Line /\ Head(pipe) = pipe[1]
        /\ Tail(pipe) \in Seq(Line) /\ Len(Tail(pipe)) = Len(pipe) - 1
        /\ \A i \in 1 .. Len(pipe) - 1 : Tail(pipe)[i] = pipe[i + 1]
        /\ Len(pipe) \in Nat \ {0} /\ Len(held) = 0
    BY <1>t, <1>8 DEF Scan
  <2>2. /\ held' \in Seq(Line) /\ Len(held') = 1 /\ held'[1] = pipe[1]
        /\ pipe' = Tail(pipe) /\ log' = log /\ sent' = sent /\ proxy' = proxy
    BY <2>1, <1>8 DEF Scan
  <2>3. InTransit'
    <3>1. held'[1] = sent[Len(log) + 1]
      BY <1>t, <1>i, <2>1, <2>2 DEF InTransit
    <3>2. ASSUME NEW i \in 1 .. Len(pipe')
          PROVE  pipe'[i] = sent[Len(log) + 1 + i]
      <4>1. i + 1 \in 1 .. Len(pipe) /\ pipe'[i] = pipe[i + 1]
        BY <1>t, <2>1, <2>2
      <4> QED BY <1>t, <1>i, <2>1, <4>1 DEF InTransit
    <3> QED BY <1>t, <1>i, <1>8, <2>1, <2>2, <3>1, <3>2 DEF Scan, InTransit
  <2> QED BY <1>t, <1>i, <1>8, <2>1, <2>2, <2>3
     DEF Scan, IInv, TypeOK, Ends, HeardUnlessFailed
<1>9. CASE TooLong
  <2>1. InTransit'
    BY <1>9, <1>i, NoLineMoves DEF TooLong, InTransit
  <2> QED BY <1>t, <1>i, <1>9, <2>1
     DEF TooLong, IInv, TypeOK, Ends, HeardUnlessFailed
<1>10. CASE WriteLine
  <2>1. Len(held) = 1 /\ held[1] \in Line /\ Redacted(held[1]) \in Line
    <3>1. held # <<>> => Len(held) # 0
      BY <1>t, EmptySeq
    <3>2. Len(held) # 0
      BY <1>10, <3>1 DEF WriteLine
    <3>3. Len(held) = 1
      BY <1>b, <3>2
    <3>4. held \in [1 .. 1 -> Line]
      BY <1>t, <3>3, LenProperties
    <3>5. held[1] \in Line
      BY <3>4
    <3> QED BY <3>3, <3>5, RedactedIsLine
  <2>2. /\ log' \in Seq(Line) /\ Len(log') = Len(log) + 1
        /\ \A i \in 1 .. Len(log) : log'[i] = log[i]
        /\ log'[Len(log) + 1] = Redacted(held[1])
        /\ held' = <<>> /\ Len(held') = 0
        /\ pipe' = pipe /\ sent' = sent /\ proxy' = proxy
    BY <1>t, <2>1, <1>10 DEF WriteLine
  <2>3. InTransit'
    <3>1. held[1] = sent[Len(log) + 1]
      BY <1>i, <2>1 DEF InTransit
    <3>2. ASSUME NEW i \in 1 .. Len(log') PROVE log'[i] = Redacted(sent'[i])
      BY <1>t, <1>i, <2>2, <3>1 DEF InTransit
    <3>3. ASSUME NEW i \in 1 .. Len(pipe')
          PROVE  pipe'[i] = sent'[Len(log') + Len(held') + i]
      <4>1. Len(log') + Len(held') = Len(log) + Len(held)
        BY <1>n, <2>1, <2>2
      <4> QED BY <1>i, <2>2, <4>1 DEF InTransit
    <3>4. Len(log') + Len(held') + Len(pipe') = Len(sent')
      BY <1>n, <1>a, <2>1, <2>2
    <3>5. Len(held') <= 1 /\ \A i \in 1 .. Len(held') : held'[i] = sent'[Len(log') + i]
      BY <2>2
    <3>6. proxy' # "none" /\ proxy' # "ended"
      BY <1>10 DEF WriteLine
    <3> QED BY <3>2, <3>3, <3>4, <3>5, <3>6 DEF InTransit
  <2> QED BY <1>t, <1>i, <1>10, <2>2, <2>3
     DEF WriteLine, IInv, TypeOK, Ends, HeardUnlessFailed
<1>11. CASE WriteFails
  <2>1. InTransit'
    BY <1>11, <1>i, NoLineMoves DEF WriteFails, InTransit
  <2> QED BY <1>t, <1>i, <1>11, <2>1
     DEF WriteFails, IInv, TypeOK, Ends, HeardUnlessFailed
<1>12. CASE Eof
  <2>1. InTransit'
    BY <1>12, <1>i, NoLineMoves DEF Eof, InTransit
  <2> QED BY <1>t, <1>i, <1>12, <2>1
     DEF Eof, IInv, TypeOK, Ends, HeardUnlessFailed
<1>13. ASSUME NEW w \in {Main} \cup Forked, Fork(w) PROVE IInv'
  <2>1. InTransit'
    BY <1>13, <1>i, NoLineMoves DEF Fork, InTransit
  <2> QED BY <1>t, <1>i, <1>13, <2>1
     DEF Fork, IInv, TypeOK, Ends, HeardUnlessFailed
<1>14. ASSUME NEW w \in {Main} \cup Forked, Exit(w) PROVE IInv'
  <2>1. InTransit'
    BY <1>14, <1>i, NoLineMoves DEF Exit, InTransit
  <2> QED BY <1>t, <1>i, <1>14, <2>1
     DEF Exit, IInv, TypeOK, Ends, HeardUnlessFailed
<1>15. ASSUME NEW w \in {Main} \cup Forked, WriteUnheard(w) PROVE IInv'
  <2>1. InTransit'
    BY <1>15, <1>i, NoLineMoves DEF WriteUnheard, InTransit
  <2>2. proxy = "failed"
    BY <1>t, <1>i, <1>15 DEF WriteUnheard, Reading, Ends
  <2> QED BY <1>t, <1>i, <1>15, <2>1, <2>2
     DEF WriteUnheard, IInv, TypeOK, Ends, HeardUnlessFailed
<1>16. ASSUME NEW w \in {Main} \cup Forked, NEW t \in Text, Write(w, t) PROVE IInv'
  <2> DEFINE line == [by |-> w, text |-> t]
  <2>1. line \in Line
    BY <1>t DEF Line
  <2>2. /\ pipe' = Append(pipe, line) /\ sent' = Append(sent, line)
        /\ UNCHANGED <<start, proxy, writers, held, log, linked, unheard>>
        /\ Reading
    BY <1>16 DEF Write
  <2> HIDE DEF line
  <2>3. /\ pipe' \in Seq(Line) /\ Len(pipe') = Len(pipe) + 1
        /\ \A i \in 1 .. Len(pipe) : pipe'[i] = pipe[i]
        /\ pipe'[Len(pipe) + 1] = line
        /\ sent' \in Seq(Line) /\ Len(sent') = Len(sent) + 1
        /\ \A i \in 1 .. Len(sent) : sent'[i] = sent[i]
        /\ sent'[Len(sent) + 1] = line
    BY <1>t, <2>1, <2>2
  <2>4. InTransit'
    <3>1. ASSUME NEW i \in 1 .. Len(log) PROVE log[i] = Redacted(sent'[i])
      <4>1. i \in 1 .. Len(sent)
        BY <1>t, <1>i DEF InTransit
      <4> QED BY <1>i, <2>3, <4>1 DEF InTransit
    <3>2. ASSUME NEW i \in 1 .. Len(held) PROVE held[i] = sent'[Len(log) + i]
      <4>1. Len(log) + i \in 1 .. Len(sent)
        BY <1>t, <1>i DEF InTransit
      <4> QED BY <1>i, <2>3, <4>1 DEF InTransit
    <3>3. ASSUME NEW i \in 1 .. Len(pipe')
          PROVE  pipe'[i] = sent'[Len(log) + Len(held) + i]
      <4>1. CASE i = Len(pipe) + 1
        <5>1. Len(log) + Len(held) + i = Len(sent) + 1
          BY <1>n, <1>a, <4>1
        <5> QED BY <2>3, <4>1, <5>1
      <4>2. CASE i \in 1 .. Len(pipe)
        <5>1. Len(log) + Len(held) + i \in 1 .. Len(sent)
          BY <1>t, <1>i, <4>2 DEF InTransit
        <5> QED BY <1>i, <2>3, <4>2, <5>1 DEF InTransit
      <4> QED BY <1>t, <2>3, <4>1, <4>2
    <3>4. Len(log) + Len(held) + Len(pipe') = Len(sent')
      BY <1>n, <1>a, <2>3
    <3> QED BY <1>i, <2>2, <3>1, <3>2, <3>3, <3>4 DEF Reading, InTransit
  <2> QED BY <1>t, <1>i, <2>2, <2>3, <2>4
     DEF Reading, IInv, TypeOK, Ends, HeardUnlessFailed
<1>17. CASE UNCHANGED vars
  BY <1>17 DEF vars, IInv, TypeOK, Ends, InTransit, HeardUnlessFailed
<1> QED
  BY <1>1, <1>2, <1>3, <1>4, <1>5, <1>6, <1>7, <1>8, <1>9, <1>10, <1>11, <1>12,
     <1>13, <1>14, <1>15, <1>16, <1>17
     DEF Next, StartStep, ProxyStep

\* The invariant holds whoever is interrupted, killed or never scheduled.
THEOREM Invariant == Spec => []IInv
<1> QED BY InitIInv, IInvStep, PTL DEF Spec

\* No process writes into the void unless the proxy met an error of its own.
THEOREM NobodyUnheard == Spec => []HeardUnlessFailed
<1>1. IInv => HeardUnlessFailed
  BY DEF IInv
<1> QED BY <1>1, Invariant, PTL

\* At any moment the file is a redacted beginning of what was written, what is
\* missing is in the proxy's hands or in the pipe, in order, and a proxy that
\* ended at the end of file has written all of it.
THEOREM LogIsFaithful == Spec => []LogFaithful
<1>1. ASSUME IInv PROVE LogFaithful
  <2> DEFINE redacted == [i \in DOMAIN sent |-> Redacted(sent[i])]
             inHands == [i \in DOMAIN held |-> Redacted(held[i])]
             inPipe == [i \in DOMAIN pipe |-> Redacted(pipe[i])]
  <2>t. /\ pipe \in Seq(Line) /\ held \in Seq(Line) /\ log \in Seq(Line)
        /\ sent \in Seq(Line) /\ TypeOK
    BY <1>1 DEF IInv, TypeOK
  <2>i. Ends /\ InTransit /\ HeardUnlessFailed
    BY <1>1 DEF IInv
  <2>1. /\ redacted \in Seq(Line) /\ inHands \in Seq(Line) /\ inPipe \in Seq(Line)
        /\ Len(redacted) = Len(sent) /\ Len(inHands) = Len(held)
        /\ Len(inPipe) = Len(pipe)
        /\ \A i \in 1 .. Len(sent) : redacted[i] = Redacted(sent[i])
        /\ \A i \in 1 .. Len(held) : inHands[i] = Redacted(held[i])
        /\ \A i \in 1 .. Len(pipe) : inPipe[i] = Redacted(pipe[i])
    <3>1. ASSUME NEW s \in Seq(Line)
          PROVE  LET r == [i \in DOMAIN s |-> Redacted(s[i])]
                 IN  /\ r \in Seq(Line) /\ Len(r) = Len(s)
                     /\ \A i \in 1 .. Len(s) : r[i] = Redacted(s[i])
      <4>1. DOMAIN s = 1 .. Len(s) /\ \A i \in 1 .. Len(s) : s[i] \in Line
        OBVIOUS
      <4> QED BY <4>1, RedactedIsLine
    <3> QED BY <2>t, <3>1
  <2> HIDE DEF redacted, inHands, inPipe
  <2>n. /\ Len(pipe) \in Nat /\ Len(held) \in Nat
        /\ Len(log) \in Nat /\ Len(sent) \in Nat
    BY <2>t, LenProperties
  <2>2. log \o inHands \o inPipe = redacted
    <3> DEFINE all == log \o inHands \o inPipe
    <3>1. /\ log \o inHands \in Seq(Line)
          /\ Len(log \o inHands) = Len(log) + Len(held)
          /\ \A i \in 1 .. Len(log) + Len(held) :
               (log \o inHands)[i] =
                 IF i <= Len(log) THEN log[i] ELSE inHands[i - Len(log)]
      <4>0. log \in Seq(Line) /\ inHands \in Seq(Line)
        BY <2>t, <2>1
      <4>1. /\ log \o inHands \in Seq(Line)
            /\ Len(log \o inHands) = Len(log) + Len(inHands)
            /\ \A i \in 1 .. Len(log) + Len(inHands) :
                 (log \o inHands)[i] =
                   IF i <= Len(log) THEN log[i] ELSE inHands[i - Len(log)]
        BY <4>0, ConcatProperties
      <4> QED BY <2>1, <4>1
    <3>2. /\ all \in Seq(Line) /\ Len(all) = Len(log) + Len(held) + Len(pipe)
          /\ \A i \in 1 .. Len(log) + Len(held) + Len(pipe) :
               all[i] = IF i <= Len(log) + Len(held) THEN (log \o inHands)[i]
                        ELSE inPipe[i - (Len(log) + Len(held))]
      <4> DEFINE front == log \o inHands
      <4>1. front \in Seq(Line) /\ inPipe \in Seq(Line)
        BY <2>1, <3>1
      <4> HIDE DEF front
      <4>2. /\ front \o inPipe \in Seq(Line)
            /\ Len(front \o inPipe) = Len(front) + Len(inPipe)
            /\ \A i \in 1 .. Len(front) + Len(inPipe) :
                 (front \o inPipe)[i] =
                   IF i <= Len(front) THEN front[i] ELSE inPipe[i - Len(front)]
        BY <4>1, ConcatProperties
      <4>3. Len(front) = Len(log) + Len(held) /\ Len(inPipe) = Len(pipe)
        BY <2>1, <3>1 DEF front
      <4> QED BY <4>2, <4>3 DEF front
    <3> HIDE DEF all
    <3>3. ASSUME NEW i \in 1 .. Len(sent) PROVE all[i] = redacted[i]
      <4>0. /\ i \in 1 .. Len(log) + Len(held) + Len(pipe)
            /\ redacted[i] = Redacted(sent[i])
        BY <2>1, <2>i DEF InTransit
      <4>1. CASE i \in 1 .. Len(log)
        <5>1. all[i] = log[i]
          BY <2>n, <3>1, <3>2, <4>0, <4>1
        <5> QED BY <2>i, <4>0, <4>1, <5>1 DEF InTransit
      <4>2. CASE i \in Len(log) + 1 .. Len(log) + Len(held)
        <5> DEFINE j == i - Len(log)
        <5>1. j \in 1 .. Len(held) /\ i = Len(log) + j
          BY <2>n, <4>2
        <5>2. all[i] = inHands[j]
          BY <2>n, <3>1, <3>2, <4>0, <4>2
        <5> HIDE DEF j
        <5>3. inHands[j] = Redacted(held[j]) /\ held[j] = sent[Len(log) + j]
          BY <2>i, <2>1, <5>1 DEF InTransit
        <5> QED BY <4>0, <5>1, <5>2, <5>3
      <4>3. CASE i \in Len(log) + Len(held) + 1 .. Len(sent)
        <5> DEFINE j == i - (Len(log) + Len(held))
        <5>1. j \in 1 .. Len(pipe) /\ i = Len(log) + Len(held) + j
          BY <2>n, <4>0, <4>3
        <5>2. all[i] = inPipe[j]
          BY <2>n, <3>2, <4>0, <4>3
        <5> HIDE DEF j
        <5>3. inPipe[j] = Redacted(pipe[j]) /\ pipe[j] = sent[Len(log) + Len(held) + j]
          BY <2>i, <2>1, <5>1 DEF InTransit
        <5> QED BY <4>0, <5>1, <5>2, <5>3
      <4> QED BY <2>n, <4>1, <4>2, <4>3
    <3>4. Len(all) = Len(redacted)
      BY <2>i, <2>1, <3>2 DEF InTransit
    <3>5. all = redacted
      BY <2>1, <3>2, <3>3, <3>4, SeqEqual
    <3> QED BY <3>5 DEF all
  <2>3. Conserved
    BY <2>2 DEF Conserved, redacted, inHands, inPipe
  <2>4. LogIsBeginning
    <3>1. /\ Len(log) <= Len(redacted) /\ Len(log) \in Nat
          /\ \A i \in 1 .. Len(log) : log[i] = redacted[i]
      BY <2>t, <2>i, <2>1 DEF InTransit
    <3>2. SubSeq(log, 1, Len(log)) = SubSeq(redacted, 1, Len(log))
      BY <2>t, <2>1, <3>1
    <3>3. IsPrefix(log, redacted)
      BY <3>1, <3>2 DEF IsPrefix
    <3> QED BY <3>3 DEF LogIsBeginning, redacted
  <2>5. LastWords
    BY <2>t, <2>i DEF LastWords, InTransit, Ends, HeardUnlessFailed
  <2> QED BY <2>t, <2>3, <2>4, <2>5 DEF LogFaithful
<1> QED BY <1>1, Invariant, PTL

=============================================================================
