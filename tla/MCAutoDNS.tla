----------------------------- MODULE MCAutoDNS -----------------------------
(* Instances of AutoDNS for TLC. *)
EXTENDS AutoDNS

\* The FQDN and its mail account are of another tenant than the zones.
MCTenantOf   == [r \in Rows |-> IF r \in {"www", "m1"} THEN "t2" ELSE "t1"]
MCOneTenant  == [r \in Rows |-> "t1"]
MCCandidates == [f \in Fqdns |-> SelectSeq(<<"www.ex", "ex">>, LAMBDA z : z \in Zones)]
MCStarts     == {{}, {"ex"}, {"ex", "www"}, {"ex", "www", "m1"}}
MCEmpty      == {{}}
MCFqdnOf     == [m \in Mails |-> "www"]
MCCustomAt   ==
    [c \in Customs |-> [zone |-> "ex", name |-> Name("www", ""),
                        type |-> IF c = "c1" THEN "A" ELSE "TXT"]]
MCLBAddresses == {[type |-> "A", content |-> "lb4"], [type |-> "AAAA", content |-> "lb6"]}
MCMailRecords == {[sub |-> "", type |-> "MX", content |-> "mail"],
                  [sub |-> "", type |-> "TXT", content |-> "spf"],
                  [sub |-> "dkim", type |-> "TXT", content |-> "key"]}
=============================================================================
