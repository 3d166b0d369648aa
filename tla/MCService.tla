----------------------------- MODULE MCService -----------------------------
(* One vault with webhooks, two generated keys, and two requests at a time. *)
EXTENDS Service

MCFilters == {{}, {"critical", "resolved"}}
=============================================================================
