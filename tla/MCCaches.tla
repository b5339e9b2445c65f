------------------------------- MODULE MCCaches -------------------------------
(***************************************************************************)
(* An instance of VerificationCaches for TLC, for the properties about     *)
(* what a request sees (TimeToLive needs the ages, and is checked without).*)
(***************************************************************************)
EXTENDS VerificationCaches

\* States are one where no property can tell what comes of them apart: an entry
\* that is no longer live is never read, and its age is only counted for overdue;
\* what a request has seen matters while it is quiet, which it is again only
\* after Begin has forgotten it all.
Relevant ==
    <<timeout, signed, remote, pc, quiet,
      [c \in CacheNames |-> IF Live(c) THEN <<cache[c].doc, cache[c].idle>> ELSE None],
      IF quiet THEN <<seen, didVerified, verdict>> ELSE <<>> >>
===============================================================================
