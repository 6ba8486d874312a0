--------------------------- MODULE CollectiveViews ---------------------------
(***************************************************************************)
(* The two sides of collectives: the memberships of one, request by        *)
(* request (Collectives), and what is public of them all, query by query   *)
(* (CollectiveCatalogue).  Each has its own state; a membership that one   *)
(* decides is a change of a status that the other reads.                   *)
(***************************************************************************)
EXTENDS Collectives

CONSTANTS Account, Creator, OwnerOf, CollectiveSlug, Suffixed, \* of CollectiveCatalogue
          MaxCollective, MaxEvents

VARIABLES collective, standing, subset, presence, hidden, making, reader, answers, events

viewVars == <<collective, standing, subset, presence, hidden, making, reader, answers, events>>

Views == INSTANCE CollectiveCatalogue
    WITH User <- Account, Slug <- CollectiveSlug, shared <- subset, endpoint <- presence

ASSUME ViewsAssumption == Views!CatalogueAssumption

\* What is shown as a collective's members were approved members of it while
\* the view was read, and the views agree (collective_service.py:297-504).
ViewsFaithful == Views!ViewsFaithful
=============================================================================
