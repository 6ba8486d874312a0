---------------------------- MODULE HubEndpoints ----------------------------
(***************************************************************************)
(* The endpoints of the hub, seen from three sides: the collectives that   *)
(* share them (Collectives), the owner who writes them and the search      *)
(* index that follows (EndpointCatalogue), the listings and stars          *)
(* (EndpointDirectory).  Each side has what it needs of an endpoint as its *)
(* own state, takes the steps of the others as steps of its environment    *)
(* and is a specification of its own.                                      *)
(***************************************************************************)
EXTENDS Collectives

CONSTANTS Slug, MaxId, MaxHandled, Failing,            \* of EndpointCatalogue
          User, ListedSlug, TypeOf, PolicyLists, MaxEntry, \* of EndpointDirectory
          PageSize, MaxPerOwner, MaxChanges, MaxFaults

VARIABLES registered, row, index, work, handled, failures, disturbed, overlapped,
          entry, account, starred, job, walk, changes, faults, drifted

catVars == <<registered, row, index, work, handled, failures, disturbed, overlapped>>
dirVars == <<entry, account, starred, job, walk, changes, faults, drifted>>

Catalogue == INSTANCE EndpointCatalogue
    WITH Thread <- Request, endpoint <- row, req <- work
Directory == INSTANCE EndpointDirectory
    WITH Thread <- Request, Slug <- ListedSlug

ASSUME EndpointsAssumption ==
    /\ IsFiniteSet(Request)
    /\ Catalogue!Bounds /\ Directory!DirectoryAssumption

\* A document is in the search index exactly for an endpoint that is there and
\* public, or went with its account when it was, where no overlap and no failed
\* call since its last publication left it in doubt (endpoint_service.py:631-737).
IndexMirrors == Catalogue!IndexMirrors

\* Endpoints of two syncs are there together only when the two ran at one time
\* (endpoint_service.py:1102-1226).
OneSyncRemains == Catalogue!OneSyncRemains

\* A walk meets what was listed all along, and nothing twice, and the views of
\* the hub agree (_pagination.py:65-105, repositories/endpoint.py:174-672).
ListingsFaithful == Directory!ListingsFaithful

\* The counter of an endpoint is the number of its stars, but for what is on
\* its way or was lost to overlaps (endpoint_service.py:893-922).
StarsCounted == Directory!StarsCounted
=============================================================================
