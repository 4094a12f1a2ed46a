------------------------- MODULE DocumentLifecycle -------------------------
(***************************************************************************)
(* What the document pipeline promises, as the owner of a document sees    *)
(* it: a document appears as pending, is taken up, and every attempt ends  *)
(* in a status.  Its searchable content appears at once and complete,      *)
(* together with the status "indexed", and is there from then on: a later  *)
(* attempt may change the status and put the same content anew, but nobody *)
(* ever finds the document without it.  Deletion hides a document for      *)
(* good, a domain takes its documents along.                               *)
(*                                                                         *)
(* A document with a second message, from a reprocess or a duplicated      *)
(* delivery, is repeated: its attempts may overlap, so that one ends after *)
(* another.  Only a reprocess takes content away.                          *)
(***************************************************************************)
CONSTANTS Docs, Domains, DomainOf

VARIABLES
    status,   \* documents.status, "absent" and "gone" for no row
    deleted,  \* documents.deleted_at IS NOT NULL
    content,  \* whether the document has its chunks
    repeated  \* documents with more than one message

vars == <<status, deleted, content, repeated>>

Init ==
    /\ status = [d \in Docs |-> "absent"]
    /\ deleted = [d \in Docs |-> FALSE]
    /\ content = [d \in Docs |-> FALSE]
    /\ repeated = {}

Present(d) == status[d] \notin {"absent", "gone"}

Upload(d) ==
    /\ status[d] = "absent"
    /\ status' = [status EXCEPT ![d] = "pending"]
    /\ UNCHANGED <<deleted, content, repeated>>

\* An attempt begins: the first, a retry, or the run of a message that is
\* delivered again after a crash.
Start(d) ==
    /\ status[d] \in {"pending", "indexed", "failed"}
    /\ status' = [status EXCEPT ![d] = "processing"]
    /\ UNCHANGED <<deleted, content, repeated>>

\* An attempt ends well.
Publish(d) ==
    /\ status[d] = "processing" \/ d \in repeated
    /\ Present(d)
    /\ status' = [status EXCEPT ![d] = "indexed"]
    /\ content' = [content EXCEPT ![d] = TRUE]
    /\ UNCHANGED <<deleted, repeated>>

\* Also after Publish: the time limit may strike when the commit is done.
Fail(d) ==
    /\ status[d] \in {"processing", "indexed"} \/ d \in repeated
    /\ Present(d)
    /\ status' = [status EXCEPT ![d] = "failed"]
    /\ UNCHANGED <<deleted, content, repeated>>

Delete(d) ==
    /\ Present(d)
    /\ deleted' = [deleted EXCEPT ![d] = TRUE]
    /\ UNCHANGED <<status, content, repeated>>

\* The documents of a domain go together.
Purge(m) ==
    LET D == {d \in Docs : DomainOf[d] = m /\ Present(d)} IN
    /\ status' = [d \in Docs |-> IF d \in D THEN "gone" ELSE status[d]]
    /\ deleted' = [d \in Docs |-> d \in D \/ deleted[d]]
    /\ content' = [d \in Docs |-> d \notin D /\ content[d]]
    /\ UNCHANGED repeated

\* A second message for d, which changes nothing else.
Repeat(d) ==
    /\ repeated' = repeated \cup {d}
    /\ UNCHANGED <<status, deleted, content>>

\* A reprocess clears the chunks it finds.  It puts the document back to
\* pending, unless it found it so and another attempt has moved it on.
Reprocess(d) ==
    /\ Present(d)
    /\ status' \in {status, [status EXCEPT ![d] = "pending"]}
    /\ content' \in {content, [content EXCEPT ![d] = FALSE]}
    /\ repeated' = repeated \cup {d}
    /\ UNCHANGED deleted

Next ==
    \/ \E d \in Docs : \/ Upload(d) \/ Start(d) \/ Publish(d) \/ Fail(d)
                       \/ Delete(d) \/ Repeat(d) \/ Reprocess(d)
    \/ \E m \in Domains : Purge(m)

Spec == Init /\ [][Next]_vars
============================================================================
