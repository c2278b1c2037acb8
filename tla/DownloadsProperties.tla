------------------------ MODULE DownloadsProperties ------------------------
(***************************************************************************)
(* What is claimed of the grants and of the photos that are served.        *)
(***************************************************************************)
EXTENDS Downloads

\* The types of all the variables (type invariant).
CallRecord == [pc : {"start", "check", "insert", "read", "write", "delete", "ok", "error"},
               asked : Requests \cup {None}, row : Grant \cup {None}]
TermsRecord == [original : BOOLEAN, expires : Times \cup {None}]
GrantsTypeOk ==
  /\ organizer \in [Competitions -> Users]
  /\ grants \subseteq Grant /\ given \subseteq GrantIds /\ now \in Times
  /\ call \in [Clients -> CallRecord]
  /\ \A c \in Clients :
       /\ call[c].pc # "start" => call[c].asked \in Requests
       /\ call[c].pc = "insert" => call[c].asked.op = "create"
       /\ call[c].pc = "write" => call[c].row \in Grant
  /\ managing \subseteq Clients /\ revoked \subseteq GrantIds
  /\ terms \in [GrantIds -> [last : TermsRecord, mixed : BOOLEAN]]

ShownRecord == [photo : Photos, original : BOOLEAN]
FileRecord == [photo : Photos, original : BOOLEAN, name : Seq(Nat)]
GetRecord ==
  [pc : {"start", "list", "photo", "organizer", "grant", "clock", "decided", "send",
         "done", "error"},
   asked : Gets \cup {None}, todo : Seq(Photos), items : SUBSET Photos,
   row : Grant \cup {None}, can : BOOLEAN,
   files : Seq(FileRecord), open : SUBSET Nat, sent : Nat, shown : SUBSET ShownRecord]
Judging == {"organizer", "grant", "clock", "decided"}
GetTypeOk(d) ==
  /\ get[d].pc # "start" => get[d].asked \in Gets
  /\ get[d].pc = "photo" => get[d].todo # <<>>
  /\ get[d].pc \in Judging => get[d].items # {}
  /\ get[d].pc = "clock" => get[d].row \in Grant
SinceRecord == [deleted : SUBSET Photos, held : SUBSET (Competitions \X BOOLEAN),
                changed : SUBSET Competitions]
TypeOk ==
  /\ GrantsTypeOk
  /\ deleted \subseteq Photos
  /\ get \in [Downloaders -> GetRecord]
  /\ \A d \in Downloaders : GetTypeOk(d)
  /\ since \in [Downloaders -> SinceRecord]

\* What each call has shown or opened: photos, as the original or watermarked.
Served(d) == get[d].shown \cup {[photo |-> get[d].files[i].photo,
                                 original |-> get[d].files[i].original] :
                                i \in DOMAIN get[d].files}

\* An original is opened, or shown as one to download, only for the author of the
\* photo and for users who were entitled to the originals of its competition at
\* some moment of the call: an admin, its organizer, or the holder of a grant that
\* allows it and had not expired.  The three are read at different moments.
OriginalsAreEntitled ==
  \A d \in Downloaders : \A s \in Served(d) : s.original =>
    \/ Author[s.photo] = get[d].asked.actor
    \/ <<Home[s.photo], TRUE>> \in since[d].held

\* The watermarked variant is served only to a user who was not entitled at some
\* moment of the call, unless the organizer or the user's grant was written
\* during it, which may hide from one read what another would have found.
EntitledGetOriginals ==
  \A d \in Downloaders : \A s \in Served(d) : ~s.original =>
    \/ <<Home[s.photo], FALSE>> \in since[d].held
    \/ Home[s.photo] \in since[d].changed

\* A photo that was deleted before a call began is neither shown nor served by it,
\* whichever of its photos comes last.
DeletedIsNotServed ==
  \A d \in Downloaders : \A s \in Served(d) : s.photo \notin since[d].deleted

\* No reader stays open once a call has ended, however it ends; until then the
\* open ones are those of the files not yet sent.
ReadersClosed ==
  \A d \in Downloaders :
    get[d].open = IF get[d].pc \in GetOver THEN {} ELSE (get[d].sent + 1)..Len(get[d].files)

\* The files of a zip have different names, unless one of them is named like
\* another with a number added.
ZipNamesDistinct ==
  \A d \in Downloaders : LET f == get[d].files IN
    (\A i, j \in DOMAIN f, n \in 2..Len(f) : f[i].name # Append(f[j].name, n))
      => \A i, j \in 1..get[d].sent : i # j => UniqueZipName(f, i) # UniqueZipName(f, j)

\* A grant that DeleteGrant answered to have deleted is gone for good, whatever
\* updates had read it before.
RevokedStaysRevoked == \A g \in grants : g.id \notin revoked

\* The terms of a grant are the ones last asked for, each by the last request that
\* gave it, unless an update wrote over terms it had not read.
TermsStand == \A g \in grants : terms[g.id].mixed \/ Terms(g) = terms[g.id].last

\* The grants of a competition are written only by calls for that competition, of
\* somebody who managed it at some moment of the call.
ManagersOnly ==
  [][\A g \in (grants \ grants') \cup (grants' \ grants) :
       \E c \in managing : call'[c] # call[c] /\ call[c].asked.comp = g.comp]_vars
-----------------------------------------------------------------------------
(* The inductive forms.                                                    *)

\* An id names one grant and is never given twice, so a grant that is gone stays
\* gone; there is one grant per competition and user.
GrantsInv ==
  /\ revoked \subseteq given
  /\ \A g \in grants : g.id \in given /\ g.id \notin revoked
  /\ \A g, h \in grants : g.id = h.id \/ (g.comp = h.comp /\ g.user = h.user) => g = h

\* Whoever has passed CheckManager managed the competition at some moment.
ManagingInv == \A c \in Clients : call[c].pc \notin Over \cup {"check"} => c \in managing

\* What a call knows of the photos at hand: they are of one competition; what the
\* last reads said of the actor was so when they were read; a grant that is still
\* good was good before.
Now(u, k) == <<k, Entitled(u, k, organizer, grants, now)>>
JudgingInv(d) == LET k == CompOf(d) u == get[d].asked.actor IN
  /\ \A p \in get[d].items : Home[p] = k /\ p \notin since[d].deleted
  /\ Now(u, k) \in since[d].held
  /\ get[d].pc \in {"grant", "clock"} => k \in since[d].changed \/ ~Manages(u, organizer[k])
  /\ get[d].pc = "clock" =>
       /\ get[d].row.original /\ IsActive(get[d].row, now) => <<k, TRUE>> \in since[d].held
       /\ k \in since[d].changed \/ GrantOf(grants, k, u) = {get[d].row}
  /\ get[d].pc = "decided" =>
       /\ get[d].can => <<k, TRUE>> \in since[d].held
       /\ ~get[d].can => <<k, FALSE>> \in since[d].held \/ k \in since[d].changed

\* A photo that was served was not deleted before the call, and was served as the
\* actor was entitled to.
Rightly(d, s) ==
  /\ s.photo \notin since[d].deleted
  /\ s.original => \/ Author[s.photo] = get[d].asked.actor
                    \/ <<Home[s.photo], TRUE>> \in since[d].held
  /\ ~s.original => \/ <<Home[s.photo], FALSE>> \in since[d].held
                     \/ Home[s.photo] \in since[d].changed
ServedInv(d) ==
  /\ since[d].deleted \subseteq deleted
  /\ \A s \in Served(d) : Rightly(d, s)

\* Only downloads open readers, and the open ones are those of the files to be sent.
OpenInv(d) ==
  /\ get[d].pc = "start" => get[d].shown = {}
  /\ get[d].pc = "start" \/ get[d].asked.op # "download" => get[d].files = <<>>
  /\ get[d].pc = "list" => get[d].asked.op = "list"
  /\ get[d].pc \notin {"send", "done", "error"} => get[d].sent = 0
  /\ get[d].sent <= Len(get[d].files)
  /\ get[d].pc = "send" => get[d].sent < Len(get[d].files)
  /\ get[d].open = IF get[d].pc \in GetOver THEN {} ELSE (get[d].sent + 1)..Len(get[d].files)

DownloadsInv ==
  \A d \in Downloaders :
    ServedInv(d) /\ OpenInv(d) /\ (get[d].pc \in Judging => JudgingInv(d))
=============================================================================
