-------------------------- MODULE MCRequestCycle --------------------------
(***************************************************************************)
(* A small instance of RequestCycle.  Every snapshot deviates from a clean *)
(* one in at most one field besides the relay: the builder merges each     *)
(* field into a flag of its own, so a snapshot with two deviations does no *)
(* more than two snapshots with one each.                                  *)
(***************************************************************************)
EXTENDS RequestCycle

Clean == [relay |-> "on", service |-> "off", master |-> "on", dhw |-> FALSE,
          code |-> NoFault, flags |-> {}]

MCSamples ==
    UNION {{[s EXCEPT !.relay = r] : r \in Tri} :
           s \in {Clean,
                  [Clean EXCEPT !.service = "on"],
                  [Clean EXCEPT !.service = "unknown"],
                  [Clean EXCEPT !.master = "off"],
                  [Clean EXCEPT !.dhw = TRUE],
                  [Clean EXCEPT !.code = "2964"],
                  [Clean EXCEPT !.flags = {"stale_flow"}]}}
MCTimes == 0..2
MCFaultCodes == {"2964"}
MCDataFlags == {"stale_flow"}

=============================================================================
