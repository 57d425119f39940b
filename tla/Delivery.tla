------------------------------ MODULE Delivery ------------------------------
(***************************************************************************)
(* What the ingest promises, with no worker, lock, outbox or crash in it.  *)
(* An article (a normalised source URL) is worked on by one worker at a    *)
(* time and never again once it is stored; only a stored article is        *)
(* projected to the Vault; a Miniflux entry is acknowledged ("read") only  *)
(* when the article it announces is durable in the Vault.  An attempt may  *)
(* be abandoned at any time (a provider error, a crash, a lost database    *)
(* session); nothing that was stored, durable or acknowledged is lost.     *)
(***************************************************************************)
CONSTANTS Entry,     \* Miniflux entry ids
          Url,       \* normalised source URLs
          UrlOf      \* the URL an entry announces

VARIABLES working,   \* URLs some worker is classifying or about to commit
          stored,    \* URLs with a row in table articles
          durable,   \* URLs whose Markdown file is in the Vault
          read       \* entries marked read on Miniflux by the ingest

dvars == <<working, stored, durable, read>>

\* stored may hold articles of earlier versions of the program.
Init == /\ working = {}
        /\ stored \in SUBSET Url
        /\ durable \in SUBSET stored
        /\ read = {}

Begin(u) == /\ u \notin stored \cup working
            /\ working' = working \cup {u}
            /\ UNCHANGED <<stored, durable, read>>

Abandon(S) == /\ S \subseteq working
              /\ working' = working \ S
              /\ UNCHANGED <<stored, durable, read>>

Store(u) == /\ u \in working
            /\ working' = working \ {u}
            /\ stored' = stored \cup {u}
            /\ UNCHANGED <<durable, read>>

Project(u) == /\ u \in stored
              /\ durable' = durable \cup {u}
              /\ UNCHANGED <<working, stored, read>>

Acknowledge(e) == /\ UrlOf[e] \in durable
                  /\ read' = read \cup {e}
                  /\ UNCHANGED <<working, stored, durable>>

Next == \/ \E u \in Url : Begin(u) \/ Store(u) \/ Project(u)
        \/ \E S \in SUBSET Url : Abandon(S)
        \/ \E e \in Entry : Acknowledge(e)

Spec == Init /\ [][Next]_dvars
=============================================================================
