------------------------------ MODULE MCLibrary ------------------------------
(***************************************************************************)
(* What one user has: the podcasts and how they are synced, merged and     *)
(* counted, the position in an episode and how it is synced, the server's  *)
(* copy of an episode, and a playlist that is played.  They touch rows of  *)
(* their own, so each behaviour moves one of them and leaves the others in *)
(* their first state.                                                      *)
(***************************************************************************)
EXTENDS SubscriptionSync, ActionSync, Library, Downloads, Playlists

VARIABLE moves   \* the part this behaviour moves

otherVars == <<actionVars, libraryVars, downloadVars, playlistVars>>
allVars == <<vars, otherVars, moves>>

MCInit ==
  /\ Init /\ ActionInit /\ LibraryInit /\ DownloadInit /\ PlaylistInit
  /\ moves \in {"subscriptions", "positions", "podcasts", "downloads", "playlists"}
  /\ moves # "subscriptions" => local = {} /\ subs = {} /\ faults = {} /\ kind = "external"
  /\ moves # "positions" => wrong = {}
  /\ moves # "podcasts" => trouble = {}
  /\ moves # "downloads" => mishaps = {}
  /\ moves # "playlists" => present = {} /\ rules = {} /\ limit = 0 /\ trips = {}

MCNext ==
  /\ UNCHANGED moves
  /\ \/ moves = "subscriptions" /\ Next /\ UNCHANGED otherVars
     \/ moves = "positions" /\ ActionNext /\ UNCHANGED <<vars, libraryVars, downloadVars, playlistVars>>
     \/ moves = "podcasts" /\ LibraryNext /\ UNCHANGED <<vars, actionVars, downloadVars, playlistVars>>
     \/ moves = "downloads" /\ DownloadNext /\ UNCHANGED <<vars, actionVars, libraryVars, playlistVars>>
     \/ moves = "playlists" /\ PlaylistNext /\ UNCHANGED <<vars, actionVars, libraryVars, downloadVars>>

\* Syncs are started by the scheduler every half hour and go on to their end.
SyncFairness ==
  LET Syncing == moves = "subscriptions" IN
  /\ WF_vars(Syncing /\ Begin(FALSE)) /\ WF_vars(Syncing /\ SyncStep)
  /\ WF_vars(Syncing /\ \E c \in open : Commit(c)) /\ WF_vars(Syncing /\ Prompt /\ Tick)

MCSpec == MCInit /\ [][MCNext]_allVars /\ SyncFairness

TypeInvariant == TypeOK /\ ActionTypeOK /\ LibraryTypeOK /\ DownloadTypeOK /\ PlaylistTypeOK
=============================================================================
