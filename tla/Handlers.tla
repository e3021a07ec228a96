------------------------------ MODULE Handlers -------------------------------
(***************************************************************************)
(* Request handlers of the Node process, for the components that keep      *)
(* theirs in a function from agents to calls.  A call in flight is a       *)
(* record: at names the next awaited write, and the other fields are what  *)
(* the handler read and will use.                                          *)
(***************************************************************************)

CONSTANTS
    Agent,   \* requests the server has in flight at a time
    NULL

Idle(calls, a) == calls[a] = NULL

At(calls, a, where) == calls[a] # NULL /\ calls[a].at = where

Begin(calls, a, call) == [calls EXCEPT ![a] = call]

Finish(calls, a) == [calls EXCEPT ![a] = NULL]

\* A document after document.save(): the fields that the handler changed since
\* it read the document, over whatever the document has become.
Saved(current, read, new) ==
    [f \in DOMAIN current |-> IF new[f] = read[f] THEN current[f] ELSE new[f]]

=============================================================================
