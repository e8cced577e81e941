----------------------------- MODULE Databases ------------------------------
(***************************************************************************)
(* How UserService and VideoService make up their databases when they      *)
(* start, and how the ranker scores a pair of what they made.              *)
(*                                                                         *)
(* Each service seeds math/rand and draws from it.  The generator is one   *)
(* per process: the mock clients of the tests make both services in one    *)
(* process, where the failure injectors of services made earlier go on     *)
(* drawing from it.  The draws that decide how many users and videos there *)
(* are come from the seed's stream; what later draws decide is a choice.   *)
(* Names, titles, URLs are left out.                                       *)
(***************************************************************************)
EXTENDS IdLists, Naturals, Sequences, SequencesExt, FiniteSetsExt, Functions

CONSTANTS
  Seeds,            \* values of the --seed flags
  Stream,           \* what math/rand draws after Seed(seed)
  UserRange,        \* rand.Intn(5000) + 5000 users
  VideoRange,       \* rand.Intn(500) + 100 videos
  SubscribeCounts,  \* rand.Intn(50) + 10
  LikeCounts,       \* rand.Intn(20) + 5
  TopVideoCounts,   \* rand.Intn(10) + 10
  Features,         \* rand.Intn(20)
  Coefficients,     \* rand.Intn(500)
  Uint64,           \* 2^64: dot products wrap
  USER_ID_OFFSET,   \* the first user id
  VIDEO_ID_OFFSET,  \* the first video id
  MaxDraws          \* bound on the draws between two seedings

ASSUME DatabasesAssumption ==
  /\ Stream \in [Seeds -> Seq(Nat)] /\ MaxDraws \in Nat \ {0, 1}
  /\ \A s \in Seeds : Len(Stream[s]) >= MaxDraws
  /\ UserRange \in [spread : Nat \ {0}, least : Nat \ {0}]
  /\ VideoRange \in [spread : Nat \ {0}, least : Nat \ {0}]
  /\ SubscribeCounts \cup LikeCounts \cup TopVideoCounts \subseteq Nat \ {0}
  /\ IsFiniteSet(Features) /\ Coefficients \subseteq Nat /\ Uint64 \in Nat \ {0}
  /\ USER_ID_OFFSET \in Nat /\ VIDEO_ID_OFFSET \in Nat

VARIABLES
  seed,        \* the Seed option of each service
  rng,         \* math/rand: the seed last given to it, and the draws since
  started,     \* how far each service has come
  disturbed,   \* some draw was taken out of a service's stream (history)
  users,       \* UserServiceServer.users
  infos,       \* VideoServiceServer.videos
  trending,    \* VideoServiceServer.topVideos
  ranking      \* the Rank being computed

dbVars == <<seed, rng, started, disturbed, users, infos, trending, ranking>>

Services == {"user", "video"}
NoRanking == [user |-> 0, video |-> 0, left |-> {}, dotProduct |-> 0]

\* DefaultUserServiceOptions and DefaultVideoServiceOptions have the same Seed;
\* the --seed flags of the two mains need not.
DbInit ==
  /\ seed \in [Services -> Seeds]
  /\ rng = [seed |-> CHOOSE s \in Seeds : TRUE, drawn |-> 0]
  /\ started = [s \in Services |-> "no"]
  /\ disturbed = FALSE
  /\ users = <<>> /\ infos = <<>> /\ trending = <<>>
  /\ ranking = NoRanking

-----------------------------------------------------------------------------
(***************************************************************************)
(* Starting the services.                                                  *)
(***************************************************************************)

\* Mutant of SeedRand: the generator is left as it is.
SeedRandNever(s) ==
  /\ started[s] = "no" /\ "seeded" \notin Range(started)
  /\ started' = [started EXCEPT ![s] = "seeded"]
  /\ UNCHANGED <<seed, rng, disturbed, users, infos, trending, ranking>>

\* rand.Seed(options.Seed), in MakeUserServiceServer and MakeVideoServiceServer:
\* the services are made one after the other.
SeedRand(s) ==
  /\ started[s] = "no" /\ "seeded" \notin Range(started)
  /\ rng' = [seed |-> seed[s], drawn |-> 0]
  /\ started' = [started EXCEPT ![s] = "seeded"]
  /\ UNCHANGED <<seed, disturbed, users, infos, trending, ranking>>

\* oneIn of an injector that is already at work.  Once both services are up a
\* draw decides nothing that is modelled here.
oneInDraws ==
  /\ rng.drawn < MaxDraws - 2 /\ \E s \in Services : started[s] # "up"
  /\ rng' = [rng EXCEPT !.drawn = @ + 1]
  /\ disturbed' = (disturbed \/ "seeded" \in Range(started))
  /\ UNCHANGED <<seed, started, users, infos, trending, ranking>>

\* The k-th draw from here, as rand.Intn(spread) + least.
Draw(k, range) == (Stream[rng.seed][rng.drawn + k] % range.spread) + range.least

\* for id := offset; id < offset+n; id++
Ids(offset, n) == offset..(offset + n - 1)

\* Sequences of draws, as many as one of the counts says.
DrawnFrom(set, counts) == UNION {[1..n -> set] : n \in counts}

\* The outcomes of the loop that fills Coeffs: a feature may be drawn twice.
Coeffs == UNION {[fs -> Coefficients] : fs \in (SUBSET Features) \ {{}}}

\* The users makeRandomUser can make: draws of the user herself are skipped.
makeRandomUser(userId, userIds, videoIds) ==
  [Coeffs : Coeffs,
   SubscribedTo : {SkipSelf(d, userId) : d \in DrawnFrom(userIds, SubscribeCounts)},
   LikedVideos : DrawnFrom(videoIds, LikeCounts)]

\* What makeRandomUsers can make: it draws the number of videos first.
makeRandomUsers ==
  LET videoIds == Ids(VIDEO_ID_OFFSET, Draw(1, VideoRange))
      userIds  == Ids(USER_ID_OFFSET, Draw(2, UserRange))
  IN  {f \in [userIds -> UNION {makeRandomUser(u, userIds, videoIds) : u \in userIds}] :
         \A u \in userIds : f[u] \in makeRandomUser(u, userIds, videoIds)}

\* The rest of MakeUserServiceServer.
MakeUserServiceServer ==
  /\ started["user"] = "seeded"
  /\ users' \in makeRandomUsers
  /\ rng' = [rng EXCEPT !.drawn = @ + 2]
  /\ started' = [started EXCEPT !["user"] = "up"]
  /\ UNCHANGED <<seed, disturbed, infos, trending, ranking>>

\* The videos and the trending ids makeRandomVideos can make.
makeRandomVideos ==
  LET videoIds == Ids(VIDEO_ID_OFFSET, Draw(1, VideoRange))
  IN  [videos : [videoIds -> Coeffs],
       topVideos : {deduplicateIds(d) : d \in DrawnFrom(videoIds, TopVideoCounts)}]

\* The rest of MakeVideoServiceServer.
MakeVideoServiceServer ==
  /\ started["video"] = "seeded"
  /\ \E made \in makeRandomVideos : infos' = made.videos /\ trending' = made.topVideos
  /\ rng' = [rng EXCEPT !.drawn = @ + 1]
  /\ started' = [started EXCEPT !["video"] = "up"]
  /\ UNCHANGED <<seed, disturbed, users, ranking>>

-----------------------------------------------------------------------------
(***************************************************************************)
(* BcryptRanker.Rank.  Go visits the entries of a map in any order.  The   *)
(* score is a fixed hash of the dot product, which stands for it.          *)
(***************************************************************************)

StartRank(u, v) ==
  /\ ranking = NoRanking
  /\ ranking' = [user |-> u, video |-> v, left |-> DOMAIN users[u].Coeffs, dotProduct |-> 0]
  /\ UNCHANGED <<seed, rng, started, disturbed, users, infos, trending>>

Product(u, v, featureId) ==
  IF featureId \in DOMAIN infos[v] THEN users[u].Coeffs[featureId] * infos[v][featureId] ELSE 0

\* Mutant of RankFeature: the sum stays at the largest value.
RankFeatureSaturates(featureId) ==
  /\ featureId \in ranking.left
  /\ ranking' = [ranking EXCEPT
       !.left = @ \ {featureId},
       !.dotProduct = Min({Uint64 - 1, @ + Product(ranking.user, ranking.video, featureId)})]
  /\ UNCHANGED <<seed, rng, started, disturbed, users, infos, trending>>

\* One entry of userCoeffs: "overflow u64 intentional".
RankFeature(featureId) ==
  /\ featureId \in ranking.left
  /\ ranking' = [ranking EXCEPT
       !.left = @ \ {featureId},
       !.dotProduct = (@ + Product(ranking.user, ranking.video, featureId)) % Uint64]
  /\ UNCHANGED <<seed, rng, started, disturbed, users, infos, trending>>

EndRank ==
  /\ ranking # NoRanking /\ ranking.left = {}
  /\ ranking' = NoRanking
  /\ UNCHANGED <<seed, rng, started, disturbed, users, infos, trending>>

DbNext ==
  \/ \E s \in Services : SeedRand(s)
  \/ MakeUserServiceServer \/ MakeVideoServiceServer \/ oneInDraws
  \/ \E u \in DOMAIN users, v \in DOMAIN infos : StartRank(u, v)
  \/ \E f \in Features : RankFeature(f)
  \/ EndRank

DbSpec == DbInit /\ [][DbNext]_dbVars

-----------------------------------------------------------------------------
Up == \A s \in Services : started[s] = "up"

\* UserService knows the videos only by counting them as VideoService will: if
\* the two have the same seed and nobody drew from the generator between Seed
\* and the draw of the count, then every video that a user likes exists, so that
\* GetVideo finds what VideoRecService asks for (makeRandomUsers draws videoCount
\* first, user_service/server_lib/server_lib.go:73).
LikedVideosExist ==
  Up /\ seed["user"] = seed["video"] /\ ~disturbed =>
    \A u \in DOMAIN users : Range(users[u].LikedVideos) \subseteq DOMAIN infos

\* With whatever seeds, in whatever order the services start and whoever draws
\* meanwhile, one can ask each service for what its own records name:
\* the users a user is subscribed to exist and are others, and the trending
\* videos exist, at least one, and are distinct, as GetVideo demands of a batch.
RecordsResolve ==
  /\ \A u \in DOMAIN users : Range(users[u].SubscribedTo) \subseteq DOMAIN users \ {u}
  /\ started["video"] = "up" =>
       trending # <<>> /\ IsInjective(trending) /\ Range(trending) \subseteq DOMAIN infos

\* "overflow u64 intentional, as long as it is deterministic" (ranker.go:35): the
\* dot product Rank ends with does not depend on the order in which Go visits
\* the coefficients: it is their dot product modulo 2^64.
RanksDeterministic ==
  ranking # NoRanking /\ ranking.left = {} =>
    ranking.dotProduct =
      MapThenSumSet(LAMBDA f : Product(ranking.user, ranking.video, f),
                    DOMAIN users[ranking.user].Coeffs) % Uint64
=============================================================================
