------------------------------ MODULE JobStates ------------------------------
(***************************************************************************)
(* The states a SAGA job can be in, the statuses and log events Condor     *)
(* knows, and the two translations the adaptor makes from Condor to SAGA:  *)
(* condor::job::status for the JobStatus attribute condor_q prints, and    *)
(* the switch of log_processor::process_log_entry for the user log.        *)
(***************************************************************************)

States == {"New", "Running", "Suspended", "Done", "Canceled", "Failed", "Unknown"}

\* job_cpi_impl::is_state_final
FinalStates == {"Done", "Canceled", "Failed"}

(* condor::job::status::operator saga::job::state: what a JobStatus means.  *)
(* A status outside the table is Unknown.                                   *)
StateOfStatus ==
    [unexpanded       |-> "Running",
     idle             |-> "Running",
     running          |-> "Running",
     removed          |-> "Canceled",
     completed        |-> "Done",
     held             |-> "Suspended",
     submission_error |-> "Failed",
     unknown          |-> "Unknown"]

(* The event types process_log_entry reacts to. "signalled" is a terminated *)
(* event that carries TerminatedBySignal. Every type the switch leaves to   *)
(* its default branch, checkpoints and suspensions included, is "info".     *)
StateOfEvent ==
    [submit     |-> "Running",
     execute    |-> "Running",
     released   |-> "Running",
     held       |-> "Suspended",
     badexec    |-> "Failed",
     evicted    |-> "Failed",
     terminated |-> "Done",
     signalled  |-> "Failed",
     aborted    |-> "Canceled"]

EventTypes == DOMAIN StateOfEvent \cup {"info"}

\* Does an event of this type change the state of the job?
IsStateEvent(type) == type # "info"

=============================================================================
