SPECIFICATION FairSpec
CONSTANTS
  Slots = {1, 2}
  Types = {"YOUTUBE_LIVE", "TWITCH"}
  MaxRestarts = 1
INVARIANTS NeverSilentlyDead OneLiveHandler
PROPERTIES Attentive
