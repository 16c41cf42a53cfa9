SPECIFICATION JoinSpec
CONSTANTS
    Guests = {g1}
    Requests = {r1}
    Caps = {2}
    Nobody = Nobody
PROPERTY
    DisconnectedFirst
