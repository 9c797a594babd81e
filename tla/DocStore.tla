------------------------------- MODULE DocStore -------------------------------
(***************************************************************************)
(* The signed documents in the key-value store (doc_methods.go): one hash  *)
(* per transaction, written by HSET and given ten seconds to live by a     *)
(* second command, EXPIRE.  HSET of a key that exists leaves its time to   *)
(* live as it is, EXPIRE of a key that does not exist is no error, and     *)
(* HGETALL of a key that does not exist scans into an empty Document: an   *)
(* absent key reads like a document without data and without a backend.    *)
(***************************************************************************)
EXTENDS SealRequests

CONSTANT Sealers    \* sealer services; each has a service name

ASSUME BackendsAssumption == None \notin Sealers

\* model.Document without the transaction id, its key.  data is "sealed" for
\* the bytes of a sealed PDF and "empty" for the empty string a sealer
\* answers together with an error; backend is the sealer that answered.
Answer == [data : {"sealed", "empty"}, backend : Sealers]

EmptyDocument == [data |-> "empty", backend |-> None]

VARIABLES
    doc,        \* what HGETALL reads for each transaction
    expiring    \* the transactions whose key has a time to live

docVars == <<doc, expiring>>

DocTypeOK ==
    /\ doc \in [Tx -> Answer \cup {EmptyDocument}]
    /\ expiring \subseteq Tx

DocInit ==
    /\ doc = [t \in Tx |-> EmptyDocument]
    /\ expiring = {}

Stored(t) == doc[t] # EmptyDocument

HSetDoc(t, a) ==
    /\ doc' = [doc EXCEPT ![t] = a]
    /\ UNCHANGED expiring

\* Mutant: the second command of SaveSigned is forgotten.
ExpireDocForgotten(t) == UNCHANGED docVars

ExpireDoc(t) ==
    /\ expiring' = IF Stored(t) THEN expiring \cup {t} ELSE expiring
    /\ UNCHANGED doc

\* The ten seconds are over.
KeyExpires(t) ==
    /\ t \in expiring
    /\ doc' = [doc EXCEPT ![t] = EmptyDocument]
    /\ expiring' = expiring \ {t}

=============================================================================
