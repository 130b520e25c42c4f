------------------------------- MODULE Database -------------------------------
(* How the backend reads songs (mpd_backend.cpp): the listings of the queue   *)
(* and of the database, which arrive as a stream of pairs, and the sizes of   *)
(* the files, which MPD only tells directory by directory. What arrives is cut *)
(* off when the connection breaks, and MPD may refuse to list a directory.    *)
(* A path is the sequence of its names; a pair is one step of a reader.       *)
EXTENDS Integers, Sequences

CONSTANTS
  Server,   \* the MPDs a connection may be made to
  Name,     \* of a file or a directory
  NoFile,   \* the empty name
  Tag,
  Songs,    \* server -> "queue" or "all" -> its listing, a sequence of songs
  Paths,    \* server -> the directories under its music directory, and itself
  Entries   \* server -> directory -> what listfiles tells, in its order

Uri    == Seq(Name)
Song   == [uri : Uri \ {<<>>}, tags : SUBSET Tag]
NoSong == [uri |-> <<>>, tags |-> {}]

\* An entry has a size when MPD could measure the file, else 0.
Entry == [kind : {"file", "directory"}, base : Name, size : Nat]

\* uri_of(): listfiles names what is in a directory by its basename.
UriOf(path, basename) == Append(path, basename)

\* The directories are those that are found from the music directory.
Found(s, paths) ==
  /\ <<>> \in paths
  /\ \A d \in paths : \A i \in DOMAIN Entries[s][d] :
       Entries[s][d][i].kind = "directory" => UriOf(d, Entries[s][d][i].base) \in paths

\* What MPD is: songs have a URI, entries a name, and every directory is found.
ServerData ==
  /\ NoFile \notin Name
  /\ \A s \in Server :
       /\ \A of \in {"queue", "all"} : Songs[s][of] \in Seq(Song)
       /\ Paths[s] \subseteq Uri
       /\ \A d \in Paths[s] : Entries[s][d] \in Seq(Entry)
       /\ Found(s, Paths[s])
       /\ \A paths \in SUBSET Paths[s] : Found(s, paths) => paths = Paths[s]

VARIABLES
  server,        \* the MPD of command_
  error,         \* of command_: "none", "refused" and not yet cleared, or "broken"
  reading,       \* "nothing", "queue", "all", or "sizes"
  received,      \* how many songs of the listing have begun
  song,          \* the song that is being read
  parsed,        \* the songs that were read
  pending,       \* the directories to be listed, in their order
  index,         \* the one that is
  told,          \* how many of its entries have begun
  owed,          \* whether the size of the last one is still to come
  current_file,
  directories,   \* those found in it
  sizes,         \* URI -> size
  size_by_uri_,  \* the same, of the last walk
  list,          \* what the last fetch of this connection returned
  player         \* the current song of its last sample

reply == <<received, song, parsed>>
walk  == <<pending, index, told, owed, current_file, directories, sizes>>
shown == <<list, player>>
reader == <<server, error, reading, reply, walk, size_by_uri_, shown>>

None == [x \in {} |-> 0]
Nothing == [of |-> "nothing", whole |-> FALSE, songs |-> <<>>]
Unknown == [uri |-> <<>>, size |-> 0]

\* attachCachedSize(): 0 when no walk has measured the file.
CachedSize(uri) == IF uri \in DOMAIN size_by_uri_ THEN size_by_uri_[uri] ELSE 0

\* The last song of a listing is followed by no other: it is still held.
Flushed == IF song = NoSong THEN parsed ELSE Append(parsed, song)

-----------------------------------------------------------------------------
\* disconnect() and connect(): another server may have other files under the
\* same URIs.
Connect(s) ==
  /\ reading = "nothing"
  /\ server' = s
  /\ error' = "none"
  /\ size_by_uri_' = None
  /\ list' = Nothing /\ player' = Unknown
  /\ UNCHANGED <<reading, reply, walk>>

\* fetchQueue() and fetchAllSongs(), whose callers look at connected() first.
Ask(listing) ==
  /\ reading = "nothing" /\ error = "none"
  /\ reading' = listing
  /\ received' = 0 /\ song' = NoSong /\ parsed' = <<>>
  /\ UNCHANGED <<server, error, walk, size_by_uri_, shown>>

\* Another command clears what was refused before (commandReady).
OtherCommand ==
  /\ reading = "nothing" /\ error = "refused"
  /\ error' = "none"
  /\ UNCHANGED <<server, reading, reply, walk, size_by_uri_, shown>>

\* fetchPlayerState().
Sample(uri) ==
  /\ reading = "nothing" /\ error = "none"
  /\ player' = [uri |-> uri, size |-> CachedSize(uri)]
  /\ UNCHANGED <<server, error, reading, reply, walk, size_by_uri_, list>>

-----------------------------------------------------------------------------
(* receiveSongs().                                                           *)
ReadingSongs == reading \in {"queue", "all"}
Listing == Songs[server][reading]
SongIsTold == received > 0 => song.tags = Listing[received].tags

\* A file pair begins a song and ends the one before it.
ReceiveSong ==
  /\ ReadingSongs /\ SongIsTold /\ received < Len(Listing)
  /\ parsed' = Flushed
  /\ received' = received + 1
  /\ song' = [uri |-> Listing[received + 1].uri, tags |-> {}]
  /\ UNCHANGED <<server, error, reading, walk, size_by_uri_, shown>>

ReceiveTag ==
  /\ ReadingSongs /\ ~SongIsTold
  /\ \E t \in Listing[received].tags \ song.tags :
       song' = [song EXCEPT !.tags = @ \cup {t}]
  /\ UNCHANGED <<server, error, reading, received, parsed, walk, size_by_uri_, shown>>

ReplyEnded == ReadingSongs /\ SongIsTold /\ received = Len(Listing)

QueueIsRead ==
  /\ ReplyEnded /\ reading = "queue"
  /\ reading' = "nothing"
  /\ list' = [of |-> "queue", whole |-> TRUE,
              songs |-> [i \in DOMAIN Flushed |-> [uri |-> Flushed[i].uri,
                           tags |-> Flushed[i].tags, size |-> 0]]]
  /\ UNCHANGED <<server, error, reply, walk, size_by_uri_, player>>

\* readAllFileSizes() starts at the music directory.
DatabaseIsRead ==
  /\ ReplyEnded /\ reading = "all"
  /\ reading' = "sizes"
  /\ parsed' = Flushed /\ song' = NoSong
  /\ pending' = <<<<>>>> /\ index' = 1 /\ sizes' = None
  /\ told' = 0 /\ owed' = FALSE /\ current_file' = NoFile /\ directories' = <<>>
  /\ UNCHANGED <<server, error, received, size_by_uri_, shown>>

\* A reply that is cut off or refused: the queue keeps what has arrived, the
\* database is empty. finish() clears what MPD refused.
SongsBreak(how) ==
  /\ ReadingSongs
  /\ list' = [of |-> reading, whole |-> FALSE,
              songs |-> IF reading = "all" THEN <<>>
                        ELSE [i \in DOMAIN Flushed |-> [uri |-> Flushed[i].uri,
                                tags |-> Flushed[i].tags, size |-> 0]]]
  /\ reading' = "nothing"
  /\ error' = IF how = "broken" THEN "broken" ELSE "none"
  /\ UNCHANGED <<server, reply, walk, size_by_uri_, player>>

-----------------------------------------------------------------------------
(* readDirectorySizes() and readAllFileSizes().                              *)
Directory == pending[index]
Told == Entries[server][Directory]
Begins(kind) ==
  /\ reading = "sizes" /\ ~owed
  /\ told < Len(Told) /\ Told[told + 1].kind = kind
  /\ told' = told + 1

\* MPD may leave out a size it does not know, or call it 0.
ReceiveFile ==
  /\ Begins("file")
  /\ current_file' = Told[told + 1].base
  /\ owed' \in BOOLEAN /\ (Told[told + 1].size > 0 => owed')
  /\ UNCHANGED <<server, error, reading, reply, pending, index, directories, sizes,
                 size_by_uri_, shown>>

ReceiveDirectory ==
  /\ Begins("directory")
  /\ current_file' = NoFile
  /\ directories' = Append(directories, UriOf(Directory, Told[told + 1].base))
  /\ UNCHANGED <<server, error, reading, reply, pending, index, owed, sizes, size_by_uri_,
                 shown>>

ReceiveSize ==
  /\ reading = "sizes" /\ owed
  /\ owed' = FALSE
  /\ LET uri  == UriOf(Directory, current_file)
         size == Told[told].size
     IN  sizes' = IF current_file = NoFile \/ size = 0 THEN sizes
                  ELSE [u \in DOMAIN sizes \cup {uri} |-> IF u = uri THEN size ELSE sizes[u]]
  /\ UNCHANGED <<server, error, reading, reply, pending, index, told, current_file,
                 directories, size_by_uri_, shown>>

DirectoryEnded == reading = "sizes" /\ ~owed /\ told = Len(Told)

\* The directories that were found join the end of the queue.
NextDirectory ==
  /\ DirectoryEnded /\ index < Len(pending \o directories)
  /\ pending' = pending \o directories
  /\ index' = index + 1
  /\ told' = 0 /\ current_file' = NoFile /\ directories' = <<>>
  /\ UNCHANGED <<server, error, reading, reply, owed, sizes, size_by_uri_, shown>>

\* What fetchAllSongs() returns, with the sizes of `measured` attached.
Library(measured) ==
  [of |-> "all", whole |-> TRUE,
   songs |-> [i \in DOMAIN parsed |->
                [uri |-> parsed[i].uri, tags |-> parsed[i].tags,
                 size |-> IF parsed[i].uri \in DOMAIN measured THEN measured[parsed[i].uri]
                          ELSE 0]]]

SizesAreKept ==
  /\ reading' = "nothing"
  /\ size_by_uri_' = IF DOMAIN sizes = {} THEN size_by_uri_ ELSE sizes
  /\ list' = Library(size_by_uri_')
  /\ UNCHANGED <<server, reply, walk, player>>

WalkEnds ==
  /\ DirectoryEnded /\ index = Len(pending \o directories)
  /\ SizesAreKept
  /\ UNCHANGED error

\* A directory that MPD refuses, or a connection that breaks: what was measured
\* until then replaces what the walk before had measured, for ok is still that of
\* the songs. Nobody calls finish(), so connected() is false until another command
\* clears the error.
WalkFails(how) ==
  /\ reading = "sizes"
  /\ SizesAreKept
  /\ error' = how

-----------------------------------------------------------------------------
ListingsInit ==
  /\ server \in Server
  /\ error = "none" /\ reading = "nothing"
  /\ received = 0 /\ song = NoSong /\ parsed = <<>>
  /\ pending = <<>> /\ index = 1 /\ told = 0 /\ owed = FALSE
  /\ current_file = NoFile /\ directories = <<>> /\ sizes = None
  /\ size_by_uri_ = None /\ list = Nothing /\ player = Unknown

ListingsNext ==
  \/ \E s \in Server : Connect(s)
  \/ \E listing \in {"queue", "all"} : Ask(listing)
  \/ OtherCommand
  \/ \E i \in DOMAIN Songs[server]["queue"] : Sample(Songs[server]["queue"][i].uri)
  \/ ReceiveSong \/ ReceiveTag \/ QueueIsRead \/ DatabaseIsRead
  \/ ReceiveFile \/ ReceiveDirectory \/ ReceiveSize \/ NextDirectory \/ WalkEnds
  \/ \E how \in {"refused", "broken"} : SongsBreak(how) \/ WalkFails(how)

ListingsSpec == ListingsInit /\ [][ListingsNext]_reader

-----------------------------------------------------------------------------
(* Properties.                                                               *)

\* A listing that was read has the songs that MPD sent, in their order, each with
\* tags of its own, and a whole one misses none: neither the last song nor its
\* last tag (mpd_backend.cpp:241).
ListingIsWhole ==
  list.of # "nothing" =>
    LET sent == Songs[server][list.of]
    IN  /\ DOMAIN list.songs \subseteq DOMAIN sent
        /\ \A i \in DOMAIN list.songs :
             list.songs[i].uri = sent[i].uri /\ list.songs[i].tags \subseteq sent[i].tags
        /\ list.whole => /\ DOMAIN list.songs = DOMAIN sent
                         /\ \A i \in DOMAIN sent : list.songs[i].tags = sent[i].tags

\* The size of a file on the server that is connected to.
Measures(uri, size) ==
  \E d \in Paths[server] : \E i \in DOMAIN Entries[server][d] :
    /\ Entries[server][d][i].kind = "file" /\ size > 0
    /\ uri = UriOf(d, Entries[server][d][i].base) /\ size = Entries[server][d][i].size

\* A size that is shown is that of the file of this URI on this server, whatever was
\* read before, from which server, and wherever a walk was cut off.
SizesAreTrue ==
  /\ \A uri \in DOMAIN size_by_uri_ : Measures(uri, size_by_uri_[uri])
  /\ player.size # 0 => Measures(player.uri, player.size)
  /\ \A i \in DOMAIN list.songs :
       list.songs[i].size # 0 => Measures(list.songs[i].uri, list.songs[i].size)

\* A walk that ends has measured every file of every directory.
WalkIsComplete ==
  [][WalkEnds => \A d \in Paths[server] : \A i \in DOMAIN Entries[server][d] :
       Entries[server][d][i].kind = "file" /\ Entries[server][d][i].size > 0
         => UriOf(d, Entries[server][d][i].base) \in DOMAIN size_by_uri_']_reader
=============================================================================
