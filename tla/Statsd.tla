------------------------------- MODULE Statsd -------------------------------
(***************************************************************************)
(* Statistics on their way: counters that any thread increments, the       *)
(* StatsdAgent thread that reports them in packets, UDP, which loses,      *)
(* repeats and reorders packets, and the StatsdServer, whose work threads  *)
(* read packets in any order.  Other programs send samples too, with       *)
(* labels.  A text is a sequence of integers, each of them a whole number, *)
(* a part of a name or a sign; the signs are below all names and numbers.  *)
(***************************************************************************)
EXTENDS Integers, Sequences, FiniteSets, FiniteSetsExt, Functions

CONSTANTS
    Exported,         \* the sequence of exported stats: [path, mode]
    Foreign,          \* packets of other programs: [text, meant], meant being
                      \* the samples in it, or << >> if it is malformed
    MaxPacketSize,    \* kMaxPacketSize, in characters
    MaxValue, MaxPackets, MaxRepeats    \* bounds

VARIABLES
    value,            \* value_ of the counters, by path
    last_values,      \* what reportDelta() has reported
    agent,            \* "asleep", "report", "stopped"
    running,
    stat,             \* the next stat of forEachStat()
    lines,            \* what report() has collected
    packets,          \* the packets that are still to be sent: [text, meant]
    net,              \* packets on their way: [id, text]
    jobs,             \* packets in the hands of the work threads, with their locals
    samples,          \* history: the samples that the callback got, by packet
    sent,             \* history: the packets, by id: [text, meant, from]
    lost,             \* history: the ids of packets that did not arrive
    dropped,          \* history: packets that the agent did not send
    repeats

agentVars == <<last_values, agent, running, stat, lines, packets>>
serverVars == <<jobs, samples>>
statsHistory == <<sent, lost, dropped, repeats>>
statsVars == <<value, agentVars, net, serverVars, statsHistory>>

Sign(n) == -(MaxValue + n)
LabelBegin == Sign(1)
LabelEnd == Sign(2)
ValueBegin == Sign(3)
LabelSplit == Sign(4)
Newline == Sign(5)
Return == Sign(6)

Paths == {Exported[i].path : i \in 1..Len(Exported)}
-----------------------------------------------------------------------------
\* Counter::incr() and decr(), in any thread, as long as there is a report to come
Count(path, by) ==
    /\ agent # "stopped"
    /\ value[path] + by \in 0..MaxValue
    /\ value' = [value EXCEPT ![path] = @ + by]
    /\ UNCHANGED <<agentVars, net, serverVars, statsHistory>>

\* The interval is over, or stop() has been called: a last report follows.
WakeUp ==
    /\ agent = "asleep" /\ Len(sent) + Len(dropped) < MaxPackets
    /\ agent' = "report"
    /\ UNCHANGED <<value, last_values, running, stat, lines, packets, net, serverVars, statsHistory>>

Line(path, number) == <<path, ValueBegin, number>>

\* report() collects the lines of all stats, packs them, and sends the packets.
Collecting == agent = "report" /\ stat <= Len(Exported)
Packing == agent = "report" /\ stat > Len(Exported) /\ lines # << >>
Sending == agent = "report" /\ stat > Len(Exported) /\ lines = << >>

\* reportValue() or reportDelta() of one stat; the counters go on meanwhile.
Report ==
    /\ Collecting
    /\ LET s == Exported[stat]
           delta == value[s.path] - last_values[s.path]
       IN  /\ lines' = IF s.mode = "none" THEN lines
                       ELSE Append(lines, Line(s.path, IF s.mode = "value" THEN value[s.path] ELSE delta))
           /\ last_values' = IF s.mode = "delta" THEN [last_values EXCEPT ![s.path] = value[s.path]]
                             ELSE last_values
    /\ stat' = stat + 1
    /\ UNCHANGED <<value, agent, running, packets, net, serverVars, statsHistory>>

\* Where the line goes into the text of a packet.
Written(pkt, line) ==
    [text |-> pkt.text \o line \o <<Newline>>,
     meant |-> Append(pkt.meant, [path |-> <<line[1]>>, labels |-> << >>, number |-> line[3]])]

\* A line goes into a packet that stays below the limit; the mutant forgets
\* the length of the line.
BelowLimitSoFar(pkt, line) == Len(pkt.text) < MaxPacketSize
BelowLimit(pkt, line) == Len(pkt.text) + Len(line) + 2 < MaxPacketSize

\* A turn of sendToStatsd(): the next line goes into the last packet, or into
\* one of its own.
Pack ==
    /\ Packing
    /\ LET n == Len(packets)
       IN  IF n = 0 \/ ~BelowLimit(packets[n], Head(lines))
           THEN packets' = Append(packets, Written([text |-> << >>, meant |-> << >>], Head(lines)))
           ELSE packets' = [packets EXCEPT ![n] = Written(@, Head(lines))]
    /\ lines' = Tail(lines)
    /\ UNCHANGED <<value, last_values, agent, running, stat, net, serverVars, statsHistory>>

Send ==
    /\ Sending /\ packets # << >> /\ Len(sent) < MaxPackets
    /\ sent' = Append(sent, [text |-> packets[1].text, meant |-> packets[1].meant, from |-> "agent"])
    /\ net' = net \cup {[id |-> Len(sent'), text |-> packets[1].text]}
    /\ packets' = Tail(packets)
    /\ UNCHANGED <<value, last_values, agent, running, stat, lines, serverVars, lost, dropped, repeats>>

\* sendTo() raises: the packets that are left are not sent again.
SendFails ==
    /\ Sending /\ packets # << >>
    /\ dropped' = dropped \o packets
    /\ packets' = << >>
    /\ UNCHANGED <<value, last_values, agent, running, stat, lines, net, serverVars, sent, lost, repeats>>

\* The end of report(), and of the thread if it is to stop.
Reported ==
    /\ Sending /\ packets = << >>
    /\ agent' = IF running THEN "asleep" ELSE "stopped"
    /\ stat' = 1
    /\ UNCHANGED <<value, last_values, running, lines, packets, net, serverVars, statsHistory>>

Stop ==
    /\ running /\ running' = FALSE
    /\ UNCHANGED <<value, last_values, agent, stat, lines, packets, net, serverVars, statsHistory>>
-----------------------------------------------------------------------------
\* The network
Lose(p) ==
    /\ net' = net \ {p} /\ lost' = lost \cup {p.id}
    /\ UNCHANGED <<value, agentVars, serverVars, sent, dropped, repeats>>

\* A copy has an id of its own.
Repeat(p) ==
    /\ repeats < MaxRepeats /\ repeats' = repeats + 1
    /\ sent' = Append(sent, [sent[p.id] EXCEPT !.from = "network"])
    /\ net' = net \cup {[id |-> Len(sent'), text |-> p.text]}
    /\ UNCHANGED <<value, agentVars, serverVars, lost, dropped>>

SendForeign(f) ==
    /\ Len(sent) < MaxPackets
    /\ sent' = Append(sent, [text |-> f.text, meant |-> f.meant, from |-> "other"])
    /\ net' = net \cup {[id |-> Len(sent'), text |-> f.text]}
    /\ UNCHANGED <<value, agentVars, serverVars, lost, dropped, repeats>>
-----------------------------------------------------------------------------
\* UDPServer::messageReceived(): the packet is handed to a work thread.
Receive(p) ==
    /\ net' = net \ {p}
    /\ jobs' = jobs \cup {[id |-> p.id, text |-> p.text, begin |-> 1, value |-> << >>]}
    /\ UNCHANGED <<value, agentVars, samples, statsHistory>>

\* The first place from mark on that has one of the signs, or the end.
PartEnd(text, mark, signs) ==
    Min({i \in mark..Len(text) + 1 : i <= Len(text) => text[i] \in signs})
AfterNewlines(text, mark) ==
    Min({i \in mark..Len(text) + 1 : i <= Len(text) => text[i] \notin {Newline, Return}})

Parsed(how, labels, mark) == [how |-> how, labels |-> labels, mark |-> mark]
BadSample == Parsed("raised", << >>, 0)

\* The labels that follow at a place, given those that follow behind it: the
\* states S_LABEL_OR_VALUE and S_LABEL of parseStatsdSample().
LabelsAt(text, behind, p) ==
    LET cur == PartEnd(text, p + 1, {LabelEnd, ValueBegin})
        split == Min({i \in p + 1..cur : i < cur => text[i] = LabelSplit})
        label == <<SubSeq(text, p + 1, split - 1), SubSeq(text, split + 1, cur - 1)>>
    IN  IF p > Len(text) THEN BadSample
        ELSE IF text[p] = ValueBegin THEN Parsed("value", << >>, p + 1)
        ELSE IF text[p] # LabelBegin \/ split + 1 >= cur THEN BadSample
        ELSE IF cur > Len(text) THEN Parsed("end", <<label>>, cur)
        ELSE Parsed(behind[cur + 1].how, <<label>> \o behind[cur + 1].labels, behind[cur + 1].mark)

Labels(text) ==
    LET labels[p \in 1..Len(text) + 1] == LabelsAt(text, labels, p) IN labels

\* parseStatsdSample(): the part behind the key.  Where the text ends inside
\* of a key or a label, value is still that of the sample before.
RestOfSample(text, cur) ==
    IF cur > Len(text) THEN Parsed("end", << >>, cur) ELSE Labels(text)[cur]
KeyEnd(job) == PartEnd(job.text, job.begin, {LabelBegin, ValueBegin, LabelSplit})
Value(job, rest) ==
    IF rest.how = "end" THEN job.value
    ELSE SubSeq(job.text, rest.mark, PartEnd(job.text, rest.mark, {Newline, Return}) - 1)
NextSample(job, rest) ==
    IF rest.how = "end" THEN rest.mark
    ELSE AfterNewlines(job.text, PartEnd(job.text, rest.mark, {Newline, Return}))

\* std::stod() fails
NotANumber(val) == val = << >> \/ val[1] < -MaxValue

\* A turn of messageReceived().  It raises with parseStatsdSample(), and
\* gives the packet up when std::stod() fails.
HandleSample(job) ==
    /\ \E cur \in {KeyEnd(job)} : \E rest \in {RestOfSample(job.text, cur)} :
         IF rest.how = "raised" \/ NotANumber(Value(job, rest))
         THEN jobs' = jobs \ {job} /\ UNCHANGED samples
         ELSE /\ samples' = [samples EXCEPT ![job.id] = Append(@,
                  [path |-> SubSeq(job.text, job.begin, cur - 1), labels |-> rest.labels,
                   number |-> Value(job, rest)[1]])]
              /\ jobs' = (jobs \ {job}) \cup
                   (IF NextSample(job, rest) <= Len(job.text)
                    THEN {[job EXCEPT !.begin = NextSample(job, rest), !.value = Value(job, rest)]} ELSE {})
    /\ UNCHANGED <<value, agentVars, net, statsHistory>>
-----------------------------------------------------------------------------
StatsInit ==
    /\ value = [path \in Paths |-> 0] /\ last_values = value
    /\ agent = "asleep" /\ running = TRUE /\ stat = 1 /\ lines = << >> /\ packets = << >>
    /\ net = {} /\ jobs = {}
    /\ samples = [id \in 1..(MaxPackets + MaxRepeats) |-> << >>]
    /\ sent = << >> /\ lost = {} /\ dropped = << >> /\ repeats = 0

StatsNext ==
    \/ \E path \in Paths, by \in {1, -1} : Count(path, by)
    \/ WakeUp \/ Report \/ Pack \/ Send \/ SendFails \/ Reported \/ Stop
    \/ \E p \in net : Lose(p) \/ Repeat(p) \/ Receive(p)
    \/ \E f \in Foreign : SendForeign(f)
    \/ \E job \in jobs : HandleSample(job)

StatsSpec == StatsInit /\ [][StatsNext]_statsVars
-----------------------------------------------------------------------------
(* The grammar of the packets *)

Sample == [path : Seq(Nat), labels : Seq(Seq(Nat) \X Seq(Nat)), number : Int]

\* A part stands in a text, and so does a label.
Reads(text, begin, part) == \A i \in 1..Len(part) : text[begin + i - 1] = part[i]
ReadsLabel(text, begin, label) ==
    LET split == begin + Len(label[1]) + 1
        end == split + Len(label[2]) + 1
    IN  /\ text[begin] = LabelBegin /\ text[split] = LabelSplit /\ text[end] = LabelEnd
        /\ Reads(text, begin + 1, label[1]) /\ Reads(text, split + 1, label[2])

\* s stands in a text from begin up to next; marks are the places where its
\* labels begin, and the place of the colon behind them.
Spells(text, begin, next, s, marks) ==
    LET n == Len(s.labels)
        colon == marks[n + 1]
    IN  /\ marks[1] = begin + Len(s.path) /\ Reads(text, begin, s.path)
        /\ \A l \in 1..n :
             /\ marks[l + 1] = marks[l] + Len(s.labels[l][1]) + Len(s.labels[l][2]) + 3
             /\ ReadsLabel(text, marks[l], s.labels[l])
        /\ text[colon] = ValueBegin /\ text[colon + 1] = s.number
        /\ next > colon + (IF next <= Len(text) THEN 2 ELSE 1)
        /\ \A i \in colon + 2..next - 1 : text[i] \in {Newline, Return}
        /\ next <= Len(text) => text[next] \notin {Newline, Return}

\* The samples stand in the text one behind the other; at are their beginnings.
Marks(text, s) == [1..Len(s.labels) + 1 -> 1..Len(text)]
InOrder(text, meant, at) ==
    /\ at[1] = 1 /\ at[Len(meant) + 1] = Len(text) + 1
    /\ \A n \in 1..Len(meant) :
         \E marks \in Marks(text, meant[n]) : Spells(text, at[n], at[n + 1], meant[n], marks)

\* A value of a label is not empty, and no number is taken for a sign.
WellFormed(text, meant) ==
    /\ meant \in Seq(Sample)
    /\ \A n \in 1..Len(meant) :
         /\ meant[n].number >= -MaxValue
         /\ \A l \in 1..Len(meant[n].labels) : meant[n].labels[l][2] # << >>
    /\ \E at \in [1..Len(meant) + 1 -> 1..Len(text) + 1] : InOrder(text, meant, at)

ASSUME StatsAssumption ==
    /\ MaxValue \in Nat /\ MaxPackets \in Nat /\ MaxRepeats \in Nat /\ MaxPacketSize \in Nat
    /\ Exported \in Seq([path : Nat, mode : {"value", "delta", "none"}])
    /\ \A f \in Foreign : f.text \in Seq(Int) /\ (f.meant # << >> => WellFormed(f.text, f.meant))
-----------------------------------------------------------------------------
\* The numbers that a text, that several texts, that packets hold of a path
Numbers(text, path) ==
    SumFunctionOnSet(text, {i \in 3..Len(text) : text[i - 2] = path /\ text[i - 1] = ValueBegin})
NumbersIn(texts, path) ==
    SumFunctionOnSet([k \in 1..Len(texts) |-> Numbers(texts[k], path)], 1..Len(texts))
TextsOf(pkts) == [k \in 1..Len(pkts) |-> pkts[k].text]
NumbersSent(pkts, path) ==
    SumFunctionOnSet([k \in 1..Len(pkts) |-> Numbers(pkts[k].text, path)],
                     {k \in 1..Len(pkts) : pkts[k].from = "agent"})

\* Paths of which increments are exported, and nothing else
DeltaPaths ==
    {path \in Paths : \A i \in 1..Len(Exported) : Exported[i].path = path => Exported[i].mode # "value"}

AccountedFor(path) ==
    NumbersIn(lines, path) + NumbersIn(TextsOf(packets), path) + NumbersIn(TextsOf(dropped), path)
      + NumbersSent(sent, path)

Handled(id) ==
    /\ id \notin lost
    /\ \A p \in net \cup jobs : p.id # id

\* The deltas add up: what the agent takes for reported is in packets that
\* were sent, dropped, or are still to be sent, each increment in one of
\* them, however reports and increments interleave; no packet of more than
\* one line reaches the limit; and every packet that arrives, once or twice
\* and in any order, is heard as the samples that its sender meant.
StatsAddUp ==
    /\ \A path \in DeltaPaths : last_values[path] = AccountedFor(path)
    /\ \A k \in 1..Len(packets) : Len(packets[k].text) < MaxPacketSize \/ Len(packets[k].text) = 4
    /\ \A id \in 1..Len(sent) :
         Handled(id) /\ sent[id].meant # << >> => samples[id] = sent[id].meant
=============================================================================
