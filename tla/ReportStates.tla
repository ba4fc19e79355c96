---------------------------- MODULE ReportStates ----------------------------
(***************************************************************************)
(* The states of a stock order (ReportModel.state) and the lists the       *)
(* workers classify them by.  Both the API (common/utils/constants.js) and *)
(* the workers (workers/jobs/utils/utils.js) carry a copy of the states.   *)
(***************************************************************************)

REPORT_STATES ==
  {"PROCESSING", "PROCESSING_FAILURE", "GENERATED", "APPROVAL_IN_PROCESS",
   "SENDING_TO_SUPPLIER", "ERROR_SENDING_TO_SUPPLIER",
   "PUSHING_TO_MSD", "ERROR_PUSHING_TO_MSD",
   "FULFILMENT_PENDING", "FULFILMENT_IN_PROCESS", "FULFILMENT_FAILURE",
   "RECEIVING_PENDING", "RECEIVING_IN_PROCESS", "SUBMITTING_RECEIVALS",
   "RECEIVING_FAILURE", "COMPLETE"}

approvedStates ==
  {"FULFILMENT_PENDING", "FULFILMENT_IN_PROCESS", "RECEIVING_PENDING",
   "RECEIVING_IN_PROCESS", "COMPLETE"}

fulfilledStates ==
  {"RECEIVING_PENDING", "RECEIVING_IN_PROCESS", "SUBMITTING_RECEIVALS",
   "COMPLETE"}

receivedStates == {"COMPLETE"}

notReceivedStates == {"RECEIVING_PENDING", "RECEIVING_IN_PROCESS"}

notApprovedStates == {"APPROVAL_IN_PROCESS", "GENERATED", "PROCESSING"}
=============================================================================
