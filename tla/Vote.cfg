SPECIFICATION MCSpec
CONSTANTS
  Voters = {fancy, ann, bob, cid}
  Bot = fancy
  Commands = {stop, unknown}
  InGame = {stop}
  InLobby = {}
  VotingTime = 2
  Turnout = 70
  MaxNest = 1
INVARIANTS TypeOK OneVoice RunsOnce
PROPERTIES ImplementsBallot EveryVoteEnds
