------------------------- MODULE MonitoringAdapters -------------------------
(***************************************************************************)
(* The fetchers behind CloudSyncService, as a table: the queries each one  *)
(* sends one after the other, the failures it tries again, and what it     *)
(* makes of the series that had a datapoint.  A column no series feeds, or *)
(* whose series had none, is stored as 0.                                  *)
(***************************************************************************)
EXTENDS Naturals, Sequences

Column == {"cpu", "memory", "disk", "network_in", "network_out"}
Fault  == {"rejected", "throttled", "outage", "timeout", "unreachable"}
MaxTries == 3   \* stop_after_attempt(3)

\* Every column from the series of its name, and nothing for the others.
Plain == [c \in Column |-> IF c \in {"memory", "disk"} THEN {} ELSE {c}]
Basic == {"cpu", "network_in", "network_out"}

\* CloudWatch: one request for the three metrics of basic monitoring.
Ec2 ==
  [queries |-> <<Basic>>, needs |-> Plain, counts |-> Basic,
   retried |-> Fault \ {"rejected"}]

\* Azure Monitor: the same, but a request that was sent and not answered is
\* no ServiceRequestError.
Vm == [Ec2 EXCEPT !.retried = Fault \ {"rejected", "timeout"}]

\* Cloud Monitoring: a request for each metric; a quota error is final.
GceInstance ==
  [Ec2 EXCEPT !.queries = <<{"cpu"}, {"network_in"}, {"network_out"}>>,
              !.retried = Fault \ {"rejected", "throttled"}]

\* Droplets also report memory and disk, as two series each, of which only
\* the total decides whether there is a sample; only responses are retried.
Droplet ==
  [queries |-> <<{"cpu"}, {"memory_total"}, {"memory_available"},
                 {"disk_total"}, {"disk_free"}, {"network_in"}, {"network_out"}>>,
   needs |-> [Plain EXCEPT !["memory"] = {"memory_total", "memory_available"},
                           !["disk"] = {"disk_total", "disk_free"}],
   counts |-> Basic \cup {"memory_total", "disk_total"},
   retried |-> {"throttled", "outage"}]

\* _PROVIDER_FETCHERS; every other provider is refused.
Fetcher == [aws |-> Ec2, azure |-> Vm, gcp |-> GceInstance, digitalocean |-> Droplet]
Supported == DOMAIN Fetcher
Series == Basic \cup {"memory_total", "memory_available", "disk_total", "disk_free"}

AskedFor(p) == UNION {Fetcher[p].queries[i] : i \in DOMAIN Fetcher[p].queries}

\* Every series that matters is asked for.
ASSUME AskedAssumption ==
  \A p \in Supported : /\ Fetcher[p].counts \subseteq AskedFor(p)
                        /\ \A c \in Column : Fetcher[p].needs[c] \subseteq AskedFor(p)

\* There is a sample when one of the deciding series had a datapoint.
HasSample(p, got) == got \cap Fetcher[p].counts # {}

\* The columns a sample really measures; the others are 0.
Measured(p, got) ==
  {c \in Column : Fetcher[p].needs[c] # {} /\ Fetcher[p].needs[c] \subseteq got}
=============================================================================
