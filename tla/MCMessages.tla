------------------------------ MODULE MCMessages ------------------------------
(* Every id that is answered with data, one that is not, and errors. *)
EXTENDS Messages

AllManagementIds ==
  {"ERROR_STATUS", "ENABLE_PORT", "CLOCK_DESCRIPTION", "USER_DESCRIPTION", "INITIALIZE",
   "DEFAULT_DATA_SET", "CURRENT_DATA_SET", "PARENT_DATA_SET",
   "TIME_PROPERTIES_DATA_SET", "PORT_DATA_SET", "PRIORITY1", "PRIORITY2", "DOMAIN",
   "SLAVE_ONLY", "LOG_ANNOUNCE_INTERVAL", "ANNOUNCE_RECEIPT_TIMEOUT",
   "LOG_SYNC_INTERVAL", "VERSION_NUMBER", "CLOCK_ACCURACY", "UTC_PROPERTIES",
   "TRACEABILITY_PROPERTIES", "DELAY_MECHANISM", "LOG_MIN_PDELAY_REQ_INTERVAL"}
=============================================================================
