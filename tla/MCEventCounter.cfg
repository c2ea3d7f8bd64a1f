CONSTANTS
    content = content
    client = client
    Threads = {content, client}
    Main = Main
    MaxEvents = 5
SPECIFICATION LiveSpec
CHECK_DEADLOCK FALSE
INVARIANT TypeOK
INVARIANT NothingLost
PROPERTY EventDisplayed
