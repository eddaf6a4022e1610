------------------------------ MODULE ConnStats ------------------------------
(***************************************************************************)
(* The counters of one rule in the proxy manager's runtime table:          *)
(* connections, bytes and bandwidth (proxy_manager.rs), as bridges and UDP *)
(* sessions report to them (proxy_listener.rs) through callbacks that      *)
(* spawn a task for every change (main.rs).                                *)
(*                                                                         *)
(* The tasks run in any order.  The rule can be deleted and created anew   *)
(* while its connections live on: they are bridged by tasks of their own,  *)
(* and report by the rule's name.                                          *)
(***************************************************************************)
EXTENDS Integers, FiniteSets

CONSTANTS Conns,       \* external connections (or UDP sessions) of the rule
          MaxChunks,   \* chunks forwarded in each direction
          MaxEntries   \* times the rule is created

ASSUME StatsAssumption ==
    /\ IsFiniteSet(Conns)
    /\ MaxChunks \in Nat /\ MaxEntries \in Nat

Directions == {"in", "out"}

VARIABLES present,      \* the rule has an entry in the runtime table
          entries,      \* how many it has had
          connections,  \* the entry's counter
          bytes,        \* its bytes_in and bytes_out, a chunk being 1
          sampled,      \* its last_sample_instant is Some
          last_sample,  \* its last_sample_bytes_in and _out
          conn,         \* idle, accepted, live, ended
          tasks,        \* counts to be changed: <<connection, 1 or -1>>
          traffic,      \* add_traffic tasks that have not run
          forwarded,    \* chunks forwarded
          counted,      \* history: connections whose +1 this entry saw, and no -1 since
          older,        \* history: connections that reported before this entry
          strays,       \* history: whose -1 came when this entry had not seen +1
          swallowed,    \* history: whose -1 found no entry, or the counter at 0
          owed,         \* history: chunks this entry is to see
          shown,        \* history: chunks in a bandwidth that was computed
          unshown       \* history: chunks up to a sample that computed none

entry == <<present, entries, connections, bytes, sampled, last_sample>>
counts == <<counted, older, strays, swallowed>>
volume == <<traffic, forwarded, owed, shown, unshown>>
statsVars == <<entry, conn, tasks, counts, volume>>

Zero == [d \in Directions |-> 0]

StatsInit ==
    /\ present = FALSE /\ entries = 0 /\ connections = 0
    /\ bytes = Zero /\ sampled = FALSE /\ last_sample = Zero
    /\ conn = [c \in Conns |-> "idle"]
    /\ tasks = {}
    /\ counted = {} /\ older = {} /\ strays = {} /\ swallowed = {}
    /\ traffic = Zero /\ forwarded = Zero /\ owed = Zero /\ shown = Zero /\ unshown = Zero

Live == {c \in Conns : conn[c] = "live"}

\* Connections whose -1 has been applied and whose +1 has not.
Overtaken == {c \in Conns : conn[c] = "ended" /\ <<c, 1>> \in tasks /\ <<c, -1>> \notin tasks}

-----------------------------------------------------------------------------
(* The rule *)

\* Mutant: the entry keeps the sample of the one before.
AddKeepsSample ==
    /\ ~present
    /\ entries < MaxEntries
    /\ present' = TRUE
    /\ entries' = entries + 1
    /\ connections' = 0 /\ bytes' = Zero
    /\ older' = {c \in Conns : conn[c] \in {"live", "ended"} /\ <<c, 1>> \notin tasks}
    /\ counted' = {} /\ strays' = Overtaken /\ swallowed' = Overtaken
    /\ owed' = traffic /\ shown' = Zero /\ unshown' = Zero
    /\ UNCHANGED <<sampled, last_sample, conn, tasks, traffic, forwarded>>

\* add_proxy enters RuntimeState::new().
add_proxy ==
    /\ ~present
    /\ entries < MaxEntries
    /\ present' = TRUE
    /\ entries' = entries + 1
    /\ connections' = 0 /\ bytes' = Zero
    /\ sampled' = FALSE /\ last_sample' = Zero
    /\ older' = {c \in Conns : conn[c] \in {"live", "ended"} /\ <<c, 1>> \notin tasks}
    /\ counted' = {} /\ strays' = Overtaken /\ swallowed' = Overtaken
    /\ owed' = traffic /\ shown' = Zero /\ unshown' = Zero
    /\ UNCHANGED <<conn, tasks, traffic, forwarded>>

\* remove_proxy removes the entry; connections are not told.
remove_proxy ==
    /\ present
    /\ present' = FALSE
    /\ UNCHANGED <<entries, connections, bytes, sampled, last_sample, conn, tasks,
                   counts, volume>>

-----------------------------------------------------------------------------
(* Connections, and what they report *)

\* The callbacks spawn a task for every change.
ReportConn(c, delta) == tasks' = tasks \cup {<<c, delta>>}
ReportTraffic(d) == traffic' = [traffic EXCEPT ![d] = @ + 1]

\* The rule's listener accepts a connection.
Accept(c) ==
    /\ present
    /\ conn[c] = "idle"
    /\ conn' = [conn EXCEPT ![c] = "accepted"]
    /\ UNCHANGED <<entry, tasks, counts, volume>>

\* It has got its work connection: report_conn(+1), then the bridge runs.
Bridge(c) ==
    /\ conn[c] = "accepted"
    /\ conn' = [conn EXCEPT ![c] = "live"]
    /\ ReportConn(c, 1)
    /\ UNCHANGED <<entry, counts, volume>>

\* It has got none.
Refuse(c) ==
    /\ conn[c] = "accepted"
    /\ conn' = [conn EXCEPT ![c] = "idle"]
    /\ UNCHANGED <<entry, tasks, counts, volume>>

\* The bridge has ended: report_conn(-1).
End(c) ==
    /\ conn[c] = "live"
    /\ conn' = [conn EXCEPT ![c] = "ended"]
    /\ ReportConn(c, -1)
    /\ UNCHANGED <<entry, counts, volume>>

\* A chunk has been forwarded: report_traffic.
Forward(d) ==
    /\ Live # {}
    /\ forwarded[d] < MaxChunks
    /\ forwarded' = [forwarded EXCEPT ![d] = @ + 1]
    /\ ReportTraffic(d)
    /\ owed' = [owed EXCEPT ![d] = @ + 1]
    /\ UNCHANGED <<entry, conn, tasks, counts, shown, unshown>>

-----------------------------------------------------------------------------
(* The spawned tasks, and the sampling *)

inc_connections(c) ==
    /\ <<c, 1>> \in tasks
    /\ tasks' = tasks \ {<<c, 1>>}
    /\ \/ /\ present
          /\ connections' = connections + 1
          /\ counted' = counted \cup {c}
       \/ /\ ~present
          /\ UNCHANGED <<connections, counted>>
    /\ UNCHANGED <<present, entries, bytes, sampled, last_sample, conn,
                   older, strays, swallowed, volume>>

\* Mutant: the counter is left alone unless it is above 1.
DecAboveOne(c) ==
    /\ <<c, -1>> \in tasks
    /\ tasks' = tasks \ {<<c, -1>>}
    /\ \/ /\ present
          /\ connections' = IF connections <= 1 THEN connections ELSE connections - 1
          /\ counted' = counted \ {c}
          /\ strays' = IF c \in counted THEN strays ELSE strays \cup {c}
          /\ swallowed' = IF connections = 0 THEN swallowed \cup {c} ELSE swallowed
       \/ /\ ~present
          /\ UNCHANGED <<connections, counted, strays, swallowed>>
    /\ UNCHANGED <<present, entries, bytes, sampled, last_sample, conn, older, volume>>

\* saturating_sub: at 0 the counter stays.
dec_connections(c) ==
    /\ <<c, -1>> \in tasks
    /\ tasks' = tasks \ {<<c, -1>>}
    /\ \/ /\ present
          /\ connections' = IF connections = 0 THEN 0 ELSE connections - 1
          /\ counted' = counted \ {c}
          /\ strays' = IF c \in counted THEN strays ELSE strays \cup {c}
          /\ swallowed' = IF connections = 0 THEN swallowed \cup {c} ELSE swallowed
       \/ /\ ~present
          /\ UNCHANGED <<connections, counted, strays, swallowed>>
    /\ UNCHANGED <<present, entries, bytes, sampled, last_sample, conn, older, volume>>

add_traffic(d) ==
    /\ traffic[d] > 0
    /\ traffic' = [traffic EXCEPT ![d] = @ - 1]
    /\ bytes' = IF present THEN [bytes EXCEPT ![d] = @ + 1] ELSE bytes
    /\ UNCHANGED <<present, entries, connections, sampled, last_sample, conn, tasks,
                   counts, forwarded, owed, shown, unshown>>

\* What has come since the last sample: saturating_sub.
Delta(d) == IF bytes[d] < last_sample[d] THEN 0 ELSE bytes[d] - last_sample[d]

\* update_bandwidth, every 2 s.  A bandwidth is computed from the second sample on,
\* and only if time has passed since the last; the sample is taken in any case.
update_bandwidth ==
    /\ present
    /\ \E elapsed \in BOOLEAN :
          LET computed == sampled /\ elapsed
          IN  /\ shown' = [d \in Directions |->
                              IF computed THEN shown[d] + Delta(d) ELSE shown[d]]
              /\ unshown' = [d \in Directions |->
                              IF computed THEN unshown[d] ELSE unshown[d] + Delta(d)]
    /\ sampled' = TRUE
    /\ last_sample' = bytes
    /\ UNCHANGED <<present, entries, connections, bytes, conn, tasks, counts,
                   traffic, forwarded, owed>>

StatsNext ==
    \/ add_proxy \/ remove_proxy \/ update_bandwidth
    \/ \E c \in Conns :
          \/ Accept(c) \/ Bridge(c) \/ Refuse(c) \/ End(c)
          \/ inc_connections(c) \/ dec_connections(c)
    \/ \E d \in Directions : Forward(d) \/ add_traffic(d)

StatsSpec == StatsInit /\ [][StatsNext]_statsVars

-----------------------------------------------------------------------------
(* Properties *)

\* When the tasks have run, in whatever order, the panel's number is the number
\* of connections that are bridged and have reported to this entry.  Each -1
\* that came without its +1, because it overtook it or because the rule was
\* deleted and created again, makes it wrong by at most one, up or down.
CountNear ==
    present /\ tasks = {} =>
        LET real == Cardinality(Live \ older)
        IN  /\ connections <= real + Cardinality(strays)
            /\ connections + Cardinality(strays) >= real

\* Every chunk is counted once: it has been added to the entry, or the task that
\* will is still to run.  The samples divide the chunks without gap or overlap, so
\* that none is in two bandwidths; in no bandwidth are those counted up to the
\* entry's first sample, or up to one that no time had passed before.
TrafficAccounted ==
    present => \A d \in Directions :
        /\ bytes[d] + traffic[d] = owed[d]
        /\ shown[d] + unshown[d] = last_sample[d] /\ last_sample[d] <= bytes[d]
        /\ ~sampled => last_sample[d] = 0
=============================================================================
