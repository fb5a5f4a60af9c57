----------------------------- MODULE JobService -----------------------------
(***************************************************************************)
(* The checks that the job service and the adaptor make on URLs and job    *)
(* ids: job_adaptor::validate_rm, helper::parse_jobid and the comparison   *)
(* in job_service_cpi_impl::sync_get_job. They hold no state.              *)
(*                                                                         *)
(* A URL is taken apart into the parts these checks look at. A job id is a *)
(* record of the URL and the cluster id that parse_jobid finds between its *)
(* brackets. A port of -1 is no port.                                      *)
(***************************************************************************)
EXTENDS Integers

CONSTANT LocalHosts   \* names for which is_local_address holds

EmptyUrl == [scheme |-> "", host |-> "", port |-> -1]

\* default_rm_: init has the assignment from the ini file commented out.
DefaultRm == EmptyUrl

(* validate_rm throws for a scheme other than the two, for a pool on        *)
(* another host, and for a Condor-G resource without a host.                *)
ValidRm(u) == \/ u = EmptyUrl
              \/ u.scheme = "condor" /\ u.host \in LocalHosts \cup {""}
              \/ u.scheme = "condorg" /\ u.host # ""

\* What it returns otherwise.
Validated(u) == IF u = EmptyUrl THEN DefaultRm
                ELSE IF u.scheme = "condor" /\ u.host = ""
                     THEN [u EXCEPT !.host = "localhost"]
                     ELSE u

\* full_job_id, and what sync_list makes of a line of condor_q.
JobId(u, cl) == [rm |-> u, cluster |-> cl]

\* parse_jobid: neither part is empty, and the URL has a scheme and a host.
Parses(id) == id.rm.scheme # "" /\ id.rm.host # ""

\* Mutant: a host that is not given has to be the same, too.
AcceptsAll(instance, id) ==
    /\ Parses(id)
    /\ instance = EmptyUrl \/ instance = id.rm

(* sync_get_job of a service for this instance: is the URL in the job id    *)
(* its own? The scheme is always compared; the test that should spare "any" *)
(* or no scheme is true of every scheme.                                    *)
Accepts(instance, id) ==
    /\ Parses(id)
    /\ instance # EmptyUrl =>
          /\ instance.scheme = id.rm.scheme
          /\ instance.host # "" => instance.host = id.rm.host
          /\ instance.port = id.rm.port

=============================================================================
