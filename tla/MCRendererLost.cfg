SPECIFICATION RendererSpec
CONSTANTS
    Main = Main
    Workers = {w1, w2}
    Threads = {Main, w1, w2}
    MAX_INDEX = 3
    TILES = 2
    Queues = {0, 1, 2}
    VERTEX_GROUP = 2
    BUCKET_SIZE = 2
    Unset = Unset
    Frames <- TwoFrames
    Scenes <- SmallScenes
INVARIANT NoAppendLost
